---- MODULE Spec2Model ----
(***************************************************************************)
(* Model of the in-memory caching and conversation-state core of the      *)
(* travel-agency chatbot backend:                                          *)
(*   - CacheManager            (app/core/cache_manager.py)                 *)
(*   - ChatbotManager's conversation state tracker (app/core/chatbot.py)   *)
(*   - the process_message orchestrators (app/core/chatbot.py,             *)
(*     enhanced_chatbot.py, enhanced_chatbot_base.py)                      *)
(*   - ResponseEnricher        (app/core/response_enricher.py)             *)
(*                                                                         *)
(* Time is the wall clock in seconds (datetime.now() / time.time()).       *)
(* The Gateway (supabase client) is an external collaborator: every        *)
(* execute() either raises or answers with rows drawn from a small set.    *)
(***************************************************************************)
EXTENDS Integers, Sequences, FiniteSets, TLC

VARIABLES
    now,                  \* wall clock, seconds
    ticks,                \* number of clock advances so far
    cache,                \* CacheManager.cache
    last_update,          \* CacheManager.last_update
    ret,                  \* the most recent call and its outcome
    conversation_states,  \* ChatbotManager._conversation_states
    appended,             \* per key, the exchanges appended to its state
    refresh,              \* the refresh_cache call in flight on another thread
    chain,                \* EnhancedChatbotManager.chain is set
    memory_store,         \* EnhancedChatbotManager.memory_store, the messages
    short_term_memory,    \* EnhancedChatbotBase.memory.short_term_memory
    msg,                  \* the process_message call in flight and its trace
    _galleries,           \* ResponseEnricher.gallery_manager._galleries
    enrich,               \* the enrich_response call, its arguments and result
    _gallery_keywords,    \* ResponseEnricher.gallery_manager._gallery_keywords
    gal,                  \* the most recent GalleryManager call and its outcome
    weigh,                \* the WeightSystem call, its argument and result
    openai_client,        \* the OpenAIClient call in flight, and its cache
    chat,                 \* api/v1/chat.py: chatbot_instances, the requests
    intent,               \* the detect_intent call, its message and its result
    chat_memory,          \* one EnhancedChatMemory: its two memories, its vector store
    wizard,               \* the admin asset wizard: the context, the asset manager, the last call
    admin_chat            \* the requests POST /admin/chat has answered

cacheVars == <<cache, last_update>>
convVars == <<conversation_states, appended>>
msgVars == <<chain, memory_store, short_term_memory, msg>>
svcVars == <<openai_client, chat, intent, chat_memory, wizard, admin_chat>>
enrichVars == <<_galleries, enrich, _gallery_keywords, gal, weigh, svcVars>>
vars == <<now, ticks, cache, last_update, ret, conversation_states, appended,
          refresh, chain, memory_store, short_term_memory, msg, _galleries,
          enrich, _gallery_keywords, gal, weigh, openai_client,
          chat,
          intent,
          chat_memory,
          wizard,
          admin_chat>>

None == "None"

\* last_update[t] is None: the clock never shows a negative value
NoTime == -1

(***************************************************************************)
(* Bounds of the model.                                                    *)
(***************************************************************************)
MaxTicks == 1

\* exchanges the first lead sends
MaxTurns == 11

\* exchanges every other lead sends
MaxOtherTurns == 1

\* exchanges a memory of an orchestrator comes to hold
MaxExchanges == 2

\* words of a message handed to extract_search_terms
MaxWords == 3

\* successful runs of GalleryManager.initialize
MaxLoads == 2

\* most requests the chat API takes in one behaviour
MaxRequests == 2

\* most patterns of the intent detector that match one message
MaxMatches == 2

\* clock advances the environment may take, in seconds
Deltas == {60, 3600, 3601}

(***************************************************************************)
(* The Gateway.  Its tables are rewritten by other parties whenever time   *)
(* passes: a select issued after g clock advances answers with the rows of *)
(* generation g.  Rows are named by their 'id'.                            *)
(***************************************************************************)
Min(a, b) == IF a < b THEN a ELSE b

AllRows == <<"r1", "r2", "r3", "r4">>

\* rows of a plain table (rooms, room_types, chatbots, reservations): empty
\* at first, one more row with every generation
GatewayRows(g) == SubSeq(AllRows, 1, Min(g, Len(AllRows)))

GalleryIds == {"g1", "g2"}

\* rows of image_galleries: gallery g1 exists in the even generations only
GatewayGalleries(g) == IF g % 2 = 0 THEN <<"g1", "g2">> ELSE <<"g2">>

\* an image row: the two metadata entries the matcher looks at
imgPool == [entity_name |-> "pool", season |-> "summer"]
imgRoom == [entity_name |-> "room", season |-> "winter"]

\* rows of gallery_images of one gallery
GatewayImages(gallery_id, g) ==
    IF g = 0 THEN <<imgPool>>
    ELSE IF g = 1 THEN <<imgRoom>>
    ELSE <<imgPool, imgRoom>>

(***************************************************************************)
(* CacheManager                                                            *)
(***************************************************************************)
\* insertion order of the keys of self.cache
CacheKeys == <<"image_galleries", "gallery_images", "rooms", "room_types",
               "chatbots", "reservations">>

CacheTypes == {CacheKeys[i] : i \in 1..Len(CacheKeys)}

\* the tables refresh_cache reads with one select and assigns whole
PlainTypes == {"rooms", "room_types", "chatbots", "reservations"}

expiration_times ==
    [image_galleries |-> 3600, gallery_images |-> 3600, rooms |-> 300,
     room_types |-> 1800, chatbots |-> 60, reservations |-> 120]

\* {}
EmptyDict == [x \in {} |-> None]

InitCache ==
    [image_galleries |-> <<>>, gallery_images |-> EmptyDict, rooms |-> <<>>,
     room_types |-> <<>>, chatbots |-> <<>>, reservations |-> <<>>]

InitLastUpdate == [t \in CacheTypes |-> NoTime]

\* d[k] = v on a dict
Put(d, k, v) == [x \in (DOMAIN d) \cup {k} |-> IF x = k THEN v ELSE d[x]]

\* d.get(k, default)
Get(d, k, default) == IF k \in DOMAIN d THEN d[k] ELSE default

IsCacheValidAtInclusive(lu, t, cache_type) ==
    IF lu[cache_type] = NoTime
    THEN FALSE
    ELSE LET time_diff == t - lu[cache_type]
         IN  time_diff <= expiration_times[cache_type]

\* _is_cache_valid at clock value t
IsCacheValidAt(lu, t, cache_type) ==
    IF lu[cache_type] = NoTime
    THEN FALSE
    ELSE LET time_diff == t - lu[cache_type]
         IN  time_diff < expiration_times[cache_type]

_is_cache_valid(cache_type) == IsCacheValidAt(last_update, now, cache_type)

\* the per-gallery loop of refresh_cache / initialize_cache: every select may
\* raise, and each answer is stored into the gallery_images dict in place
RECURSIVE ImagesLoop(_, _, _)
ImagesLoop(gi, gs, g) ==
    IF gs = <<>>
    THEN {[map |-> gi, ok |-> TRUE, n |-> 0]}
    ELSE {[map |-> gi, ok |-> FALSE, n |-> 1]}
         \cup { [r EXCEPT !.n = r.n + 1] :
                    r \in ImagesLoop(
                              Put(gi, Head(gs), GatewayImages(Head(gs), g)),
                              Tail(gs), g) }

\* one branch of refresh_cache that assigns a plain table
PlainBranch(c, lu, t, g, ty) ==
    { [cache |-> c, last_update |-> lu, ok |-> FALSE, fetches |-> 1],
      [cache |-> [c EXCEPT ![ty] = GatewayRows(g)],
       last_update |-> [lu EXCEPT ![ty] = t],
       ok |-> TRUE, fetches |-> 1] }

\* the image_galleries branch: the gallery list, then the images of each
GalleriesBranch(c, lu, t, g) ==
    {[cache |-> c, last_update |-> lu, ok |-> FALSE, fetches |-> 1]}
    \cup LET c1  == [c EXCEPT !.image_galleries = GatewayGalleries(g)]
             lu1 == [lu EXCEPT !.image_galleries = t]
         IN  { IF r.ok
               THEN [cache |-> [c1 EXCEPT !.gallery_images = r.map],
                     last_update |-> [lu1 EXCEPT !.gallery_images = t],
                     ok |-> TRUE, fetches |-> 1 + r.n]
               ELSE [cache |-> [c1 EXCEPT !.gallery_images = r.map],
                     last_update |-> lu1,
                     ok |-> FALSE, fetches |-> 1 + r.n]
               : r \in ImagesLoop(c.gallery_images,
                                  c1.image_galleries, g) }

\* one iteration of the for loop of refresh_cache
RefreshBranch(c, lu, t, g, ty) ==
    IF ty \in PlainTypes THEN PlainBranch(c, lu, t, g, ty)
    ELSE IF ty = "image_galleries" THEN GalleriesBranch(c, lu, t, g)
    ELSE {[cache |-> c, last_update |-> lu, ok |-> TRUE, fetches |-> 0]}

\* the for loop of refresh_cache inside its try block: the first select that
\* raises ends the loop, what was assigned before stays assigned
RECURSIVE RefreshLoop(_, _, _, _, _)
RefreshLoop(c, lu, t, g, types) ==
    IF types = <<>>
    THEN {[cache |-> c, last_update |-> lu, ok |-> TRUE, fetches |-> 0]}
    ELSE UNION {
         IF o.ok
         THEN { [r EXCEPT !.fetches = r.fetches + o.fetches] :
                    r \in RefreshLoop(o.cache, o.last_update, t, g,
                                     Tail(types)) }
         ELSE {o}
         : o \in RefreshBranch(c, lu, t, g, Head(types)) }

TypesToRefreshAll(cache_type) == CacheKeys

TypesToRefresh(cache_type) ==
    IF cache_type # None THEN <<cache_type>> ELSE CacheKeys

\* refresh_cache(cache_type): the outcomes of one call
refresh_cache(c, lu, t, g, cache_type) ==
    RefreshLoop(c, lu, t, g, TypesToRefresh(cache_type))

\* next((x for x in rows if x['id'] == id), None)
FindById(rows, id) ==
    IF \E i \in 1..Len(rows) : rows[i] = id THEN id ELSE None

(***************************************************************************)
(* Values handed back to a caller.                                         *)
(***************************************************************************)
RetNone == [kind |-> "none", val |-> <<>>]
RetValue(k, v) == [kind |-> k, val |-> v]
RetRaise(e) == [kind |-> "raise", val |-> <<e>>]

\* ids a caller may ask for
EntityIds == {"r1"}

\* an entity type that is no key of self.cache
UnknownType == "hotels"

EntityNames == {"pool", "room"}

\* the optional metadata filter of get_images_for_entity
MetadataArgs == {None, "summer"}

NoCall ==
    [op |-> "none", arg |-> None, id |-> None, valid_before |-> FALSE,
     cold_before |-> FALSE, ok |-> TRUE, fetches |-> 0, out |-> RetNone]

\* the record of one call: valid_before / cold_before are taken on entry
Call(op, arg, id, vb, cb, ok, n, out) ==
    [op |-> op, arg |-> arg, id |-> id, valid_before |-> vb,
     cold_before |-> cb, ok |-> ok, fetches |-> n, out |-> out]

ValidBefore(ty) == ty \in CacheTypes /\ _is_cache_valid(ty)
ColdBefore(ty) == ty \in CacheTypes /\ last_update[ty] = NoTime

\* no refresh_cache call is in flight
NoRefresh ==
    [pc |-> "none", arg |-> None, types |-> <<>>, galleries |-> <<>>,
     pre |-> InitCache]

\* a response not there yet
NoResponse == [kind |-> "none", text |-> "", suggested_actions |-> <<>>]

\* no process_message call is in flight
NoMsg ==
    [pc |-> "idle", by |-> "none", lead_id |-> None, message |-> 0,
     chat_history |-> <<>>, stages |-> <<>>, pre |-> EmptyDict,
     llm |-> "none", out |-> NoResponse]

Leads == {"l1", "l2"}

\* the keys _conversation_states comes to hold: lead ids, and None
ConvKeys == Leads \cup {None}

ConvKeyOrder == <<"l1", "l2", None>>

(***************************************************************************)
(* The tables of WeightSystem.__init__, in hundredths.  A facet of a       *)
(* configuration is "missing" (no such key), "empty" (a falsy value) or    *)
(* "set" (a value with content).                                           *)
(***************************************************************************)
context_structure_weights ==
    [tone |-> 10, purpose |-> 25, example_qa |-> 15, key_points |-> 20,
     special_instructions |-> 30]

chatbot_weights ==
    [quick_questions |-> 35, personality |-> 15, context |-> 20,
     configuration |-> 15, voice_enabled |-> 5, use_emojis |-> 5,
     welcome_message |-> 5]

ContextFacets == DOMAIN context_structure_weights

ChatbotFacets == DOMAIN chatbot_weights

FacetValues == {"missing", "empty", "set"}

\* a configuration without any facet
NoFacets == [k \in ChatbotFacets |-> "missing"]

\* a context_structure that is absent from the configuration
NoContext == [type |-> "missing", facets |-> [k \in ContextFacets |-> "missing"]]

\* no call of the WeightSystem has been made
NoWeigh ==
    [pc |-> "none", op |-> "none", config |-> NoFacets,
     context_structure |-> NoContext, weights |-> EmptyDict,
     relevance |-> [raised |-> FALSE, val |-> 0]]

\* no call of the GalleryManager has been made
NoGal ==
    [op |-> "none", status |-> "none", terms |-> <<>>,
     message |-> [is_str |-> TRUE, words |-> <<>>], gallery |-> "none",
     galleries |-> <<>>, search_terms |-> <<>>, score |-> <<0, 1>>,
     loads |-> 0, loaded |-> NoTime]

\* enrich_response has not been called
NoEnrich ==
    [pc |-> "none", llm_response |-> <<>>,
     search_terms |-> [is_list |-> FALSE, items |-> <<>>],
     chatbot_config |-> [type |-> "null"], fault |-> "none",
     out |-> [path |-> "none", text |-> <<>>, galleries |-> <<>>,
              weights |-> EmptyDict, context_relevance |-> 0,
              stages |-> <<>>]]

\* OpenAIClient after construction: no call made, _response_cache empty
NoLLM ==
    [op |-> "none", pc |-> "idle", retry_count |-> 0, use_cache |-> FALSE,
     attempt |-> 0, attempts |-> 0, failed |-> 0, slept |-> 0,
     stream |-> <<>>, yielded |-> <<>>, outcome |-> "none", result |-> <<>>,
     cached |-> FALSE, response |-> <<>>, timestamp |-> NoTime]

\* a request slot of the chat API that no request has taken
NoRequest ==
    [op |-> "none", pc |-> "idle", agency_id |-> None, chatbot_id |-> None,
     room_type_id |-> None, key |-> None, chatbot |-> 0, got |-> 0,
     found |-> "none", status |-> 0]

\* api/v1/chat.py after import: chatbot_instances = {}
NoChat ==
    [chatbot_instances |-> EmptyDict, created |-> 0, initialized |-> {},
     requests |-> <<>>]

\* Intent(type=IntentType.UNKNOWN, entity=EntityType.UNKNOWN,
\* confidence=0.0, params={})
UnknownIntent ==
    [type |-> "UNKNOWN", entity |-> "UNKNOWN", confidence |-> <<0, 1>>,
     params |-> "none"]

\* no detect_intent call is in progress
NoIntent ==
    [pc |-> "idle", message |-> [len |-> 0, params |-> "none",
                                 matches |-> <<>>],
     pattern_intent |-> UnknownIntent, llm_calls |-> 0,
     outcome |-> "none", out |-> UnknownIntent]

\* EnhancedChatMemory(chatbot_id, lead_id) after construction
NoChatMemory ==
    [short_term_memory |-> <<>>, long_term_memory |-> <<>>,
     vector_store |-> [set |-> FALSE, texts |-> <<>>],
     op |-> "none", fault |-> "none"]

\* BaseAssetManager before any manager was created
NoManager ==
    [asset |-> None, operation |-> None, current_step |-> None,
     form_data |-> EmptyDict]

\* no call of the wizard yet
NoWizardCall ==
    [op |-> "none", step |-> None, message |-> None, lower |-> None,
     valid |-> FALSE, wrote |-> 0, raised |-> FALSE]

\* the conversation context of an administrator, its manager, the last call
NoWizard ==
    [context |-> [current_manager |-> FALSE, current_operation |-> None,
                  asset_type |-> None],
     manager |-> NoManager,
     last |-> NoWizardCall]

\* app/api/v1/admin_chat.py keeps no state of its own: no request answered
NoAdminChat == [requests |-> <<>>]

\* the services around the chatbots, after construction
InitSvc ==
    /\ openai_client = NoLLM
    /\ chat = NoChat
    /\ intent = NoIntent
    /\ chat_memory = NoChatMemory
    /\ wizard = NoWizard
    /\ admin_chat = NoAdminChat

\* every variable but those of the enricher
InitCore ==
    /\ now = 0
    /\ ticks = 0
    /\ cache = InitCache
    /\ last_update = InitLastUpdate
    /\ ret = NoCall
    /\ conversation_states = EmptyDict
    /\ appended = [k \in ConvKeys |-> <<>>]
    /\ refresh = NoRefresh
    /\ chain = FALSE
    /\ memory_store = EmptyDict
    /\ short_term_memory = <<>>
    /\ msg = NoMsg
    /\ InitSvc

Init ==
    /\ InitCore
    /\ _galleries = <<>>
    /\ enrich = NoEnrich
    /\ _gallery_keywords = EmptyDict
    /\ gal = NoGal
    /\ weigh = NoWeigh

\* no call is in progress
Idle == ret.op = "none"

\* the caller has taken the outcome of its call
Return ==
    /\ ~Idle
    /\ ret' = NoCall
    /\ UNCHANGED <<now, ticks, cacheVars, convVars, refresh, msgVars, enrichVars>>

\* the wall clock advances between two calls
Tick ==
    /\ Idle
    /\ refresh = NoRefresh
    /\ ticks < MaxTicks
    /\ \E d \in Deltas : now' = now + d
    /\ ticks' = ticks + 1
    /\ UNCHANGED <<ret, cacheVars, convVars, refresh, msgVars, enrichVars>>

\* await cache_manager.refresh_cache(cache_type): the exception of a failed
\* select is logged and swallowed, the call returns None either way
RefreshCache ==
    /\ Idle
    /\ \E cache_type \in CacheTypes \cup {None, UnknownType} :
       \E o \in refresh_cache(cache, last_update, now, ticks, cache_type) :
           /\ cache' = o.cache
           /\ last_update' = o.last_update
           /\ ret' = Call("refresh_cache", cache_type, None,
                          ValidBefore(cache_type), ColdBefore(cache_type),
                          o.ok, o.fetches, RetNone)
           /\ UNCHANGED <<now, ticks, convVars, refresh, msgVars, enrichVars>>

\* the order in which initialize_cache loads the tables
InitializeOrder ==
    <<"image_galleries", "room_types", "rooms", "chatbots", "reservations">>

\* await cache_manager.initialize_cache(): True, or False after the first
\* select that raises
InitializeCache ==
    /\ Idle
    /\ \E o \in RefreshLoop(cache, last_update, now, ticks, InitializeOrder) :
           /\ cache' = o.cache
           /\ last_update' = o.last_update
           /\ ret' = Call("initialize_cache", None, None, FALSE, FALSE,
                          o.ok, o.fetches, RetValue("bool", <<o.ok>>))
           /\ UNCHANGED <<now, ticks, convVars, refresh, msgVars, enrichVars>>

\* await cache_manager.get_chatbot_data(chatbot_id)
GetChatbotData ==
    /\ Idle
    /\ \E chatbot_id \in EntityIds \cup {None} :
       \E o \in IF _is_cache_valid("chatbots")
                THEN {[cache |-> cache, last_update |-> last_update,
                       ok |-> TRUE, fetches |-> 0]}
                ELSE refresh_cache(cache, last_update, now, ticks, "chatbots") :
           /\ cache' = o.cache
           /\ last_update' = o.last_update
           /\ ret' = Call("get_chatbot_data", "chatbots", chatbot_id,
                          ValidBefore("chatbots"), ColdBefore("chatbots"),
                          o.ok, o.fetches,
                          IF chatbot_id # None
                          THEN LET bot == FindById(o.cache.chatbots, chatbot_id)
                               IN  IF bot = None THEN RetNone
                                   ELSE RetValue("row", <<bot>>)
                          ELSE RetValue("list", o.cache.chatbots))
           /\ UNCHANGED <<now, ticks, convVars, refresh, msgVars, enrichVars>>

\* cache_manager.get_entity_data(entity_type, entity_id): reads self.cache
\* as it is.  Iterating the gallery_images dict yields its keys, and
\* item['id'] on a key raises TypeError.
get_entity_data(c, entity_type, entity_id) ==
    IF entity_type \notin DOMAIN c THEN RetNone
    ELSE IF entity_id # None
    THEN IF entity_type = "gallery_images"
         THEN IF DOMAIN c[entity_type] = {} THEN RetNone
              ELSE RetRaise("TypeError")
         ELSE LET item == FindById(c[entity_type], entity_id)
              IN  IF item = None THEN RetNone ELSE RetValue("row", <<item>>)
    ELSE IF entity_type = "gallery_images"
         THEN RetValue("dict", c[entity_type])
         ELSE RetValue("list", c[entity_type])

GetEntityData ==
    /\ Idle
    /\ \E entity_type \in CacheTypes \cup {UnknownType} :
       \E entity_id \in EntityIds \cup {None} :
           /\ ret' = Call("get_entity_data", entity_type, entity_id,
                          ValidBefore(entity_type), ColdBefore(entity_type),
                          TRUE, 0, get_entity_data(cache, entity_type, entity_id))
           /\ UNCHANGED <<now, ticks, cacheVars, convVars, refresh, msgVars, enrichVars>>

\* the images of one gallery that match entity_name (and metadata when given)
SelectImages(images, entity_name, metadata) ==
    SelectSeq(images,
              LAMBDA image :
                  /\ entity_name = image.entity_name
                  /\ metadata # None => image.season = metadata)

RECURSIVE MatchingImages(_, _, _, _)
MatchingImages(c, galleries, entity_name, metadata) ==
    IF galleries = <<>> THEN <<>>
    ELSE SelectImages(Get(c.gallery_images, Head(galleries), <<>>),
                      entity_name, metadata)
         \o MatchingImages(c, Tail(galleries), entity_name, metadata)

\* cache_manager.get_images_for_entity(entity_name, metadata)
get_images_for_entity(c, entity_name, metadata) ==
    MatchingImages(c, c.image_galleries, entity_name, metadata)

GetImagesForEntity ==
    /\ Idle
    /\ \E entity_name \in EntityNames :
       \E metadata \in MetadataArgs :
           /\ ret' = Call("get_images_for_entity", entity_name, metadata,
                          ValidBefore("image_galleries")
                              /\ ValidBefore("gallery_images"),
                          ColdBefore("image_galleries")
                              \/ ColdBefore("gallery_images"),
                          TRUE, 0,
                          RetValue("images",
                              get_images_for_entity(cache, entity_name, metadata)))
           /\ UNCHANGED <<now, ticks, cacheVars, convVars, refresh, msgVars, enrichVars>>

Next ==
    \/ Tick
    \/ RefreshCache
    \/ InitializeCache
    \/ GetChatbotData
    \/ GetEntityData
    \/ GetImagesForEntity
    \/ Return

Spec == Init /\ [][Next]_vars

(***************************************************************************)
(* refresh_cache run by one thread while another thread reads: the Gateway *)
(* client is a blocking one, so the reader gets to run whenever the        *)
(* refresh waits for the answer of a select.  One step of the refresh is   *)
(* one select together with the assignments that follow it.  The Gateway   *)
(* tables stay as they are while a refresh is in flight, and a reader has  *)
(* taken its answer before the refresh moves on.                           *)
(***************************************************************************)
\* the iterations of the for loop of refresh_cache that issue a select
WithBranch(types) ==
    SelectSeq(types, LAMBDA ty : ty \in PlainTypes \cup {"image_galleries"})

\* the for loop moves on to its next iteration, or the call ends
NextType(r) ==
    IF Tail(r.types) = <<>> THEN NoRefresh
    ELSE [r EXCEPT !.pc = "select", !.types = Tail(@), !.galleries = <<>>]

\* the types the other thread refreshes: the galleries and one plain table
RefreshArgs == {"image_galleries", "rooms"}

\* refresh_cache(cache_type) is called and reaches its first select
RefreshCacheBegin ==
    /\ Idle
    /\ refresh = NoRefresh
    /\ \E cache_type \in RefreshArgs :
       LET types == WithBranch(TypesToRefresh(cache_type))
       IN  /\ types # <<>>
           /\ refresh' = [pc |-> "select", arg |-> cache_type, types |-> types,
                          galleries |-> <<>>, pre |-> cache]
    /\ UNCHANGED <<now, ticks, cacheVars, ret, convVars, msgVars, enrichVars>>

\* the select raises: the except block logs it and the call ends
RefreshCacheRaise ==
    /\ Idle
    /\ refresh # NoRefresh
    /\ refresh' = NoRefresh
    /\ UNCHANGED <<now, ticks, cacheVars, ret, convVars, msgVars, enrichVars>>

\* the select of a plain table answers
RefreshCachePlain ==
    /\ Idle
    /\ refresh.pc = "select"
    /\ Head(refresh.types) \in PlainTypes
    /\ cache' = [cache EXCEPT ![Head(refresh.types)] = GatewayRows(ticks)]
    /\ last_update' = [last_update EXCEPT ![Head(refresh.types)] = now]
    /\ refresh' = NextType(refresh)
    /\ UNCHANGED <<now, ticks, ret, convVars, msgVars, enrichVars>>

\* the select of image_galleries answers
RefreshCacheGalleries ==
    /\ Idle
    /\ refresh.pc = "select"
    /\ Head(refresh.types) = "image_galleries"
    /\ cache' = [cache EXCEPT !.image_galleries = GatewayGalleries(ticks)]
    /\ IF GatewayGalleries(ticks) = <<>>
       THEN /\ last_update' = [last_update EXCEPT !.image_galleries = now,
                                                  !.gallery_images = now]
            /\ refresh' = NextType(refresh)
       ELSE /\ last_update' = [last_update EXCEPT !.image_galleries = now]
            /\ refresh' = [refresh EXCEPT !.pc = "images",
                                          !.galleries = GatewayGalleries(ticks)]
    /\ UNCHANGED <<now, ticks, ret, convVars, msgVars, enrichVars>>

\* the select of the images of one gallery answers
RefreshCacheImages ==
    /\ Idle
    /\ refresh.pc = "images"
    /\ LET gallery == Head(refresh.galleries)
       IN  cache' = [cache EXCEPT !.gallery_images =
                         Put(@, gallery, GatewayImages(gallery, ticks))]
    /\ IF Tail(refresh.galleries) = <<>>
       THEN /\ last_update' = [last_update EXCEPT !.gallery_images = now]
            /\ refresh' = NextType(refresh)
       ELSE /\ UNCHANGED last_update
            /\ refresh' = [refresh EXCEPT !.galleries = Tail(@)]
    /\ UNCHANGED <<now, ticks, ret, convVars, msgVars, enrichVars>>

NextConc ==
    \/ Tick
    \/ RefreshCacheBegin
    \/ RefreshCacheRaise
    \/ RefreshCachePlain
    \/ RefreshCacheGalleries
    \/ RefreshCacheImages
    \/ GetEntityData
    \/ GetImagesForEntity
    \/ Return

SpecConc == Init /\ [][NextConc]_vars

(***************************************************************************)
(* ChatbotManager: the conversation state tracker                          *)
(***************************************************************************)
\* "Mantener solo los ultimos 10 mensajes"
MaxHistory == 10

\* _cleanup_conversation_states: "1 hora"
IdleThreshold == 3600

\* the last n elements of a list, s[-n:]
LastN(s, n) == SubSeq(s, Len(s) - Min(n, Len(s)) + 1, Len(s))

TruncateOldestKept(history) ==
    IF Len(history) > MaxHistory THEN SubSeq(history, 1, MaxHistory)
    ELSE history

\* if len(state['history']) > 10: state['history'] = state['history'][-10:]
Truncate(history) ==
    IF Len(history) > MaxHistory THEN LastN(history, MaxHistory)
    ELSE history

NewState(t) == [history |-> <<>>, context |-> EmptyDict, last_updated |-> t]

GetConversationStateAlwaysNew(states, t, lead_id) ==
    IF lead_id = None
    THEN [state |-> NewState(t), states |-> states]
    ELSE [state |-> NewState(t), states |-> Put(states, lead_id, NewState(t))]

\* _get_conversation_state(lead_id): the state handed back and the dict
\* afterwards; without a lead id the state is a new one that is not stored
get_conversation_state(states, t, lead_id) ==
    IF lead_id = None
    THEN [state |-> NewState(t), states |-> states]
    ELSE IF lead_id \in DOMAIN states
    THEN [state |-> states[lead_id], states |-> states]
    ELSE [state |-> NewState(t), states |-> Put(states, lead_id, NewState(t))]

\* the exchanges a lead sends: the first lead fills a history and more
KeyTurns(lead_id) == IF lead_id = "l1" THEN MaxTurns ELSE MaxOtherTurns

\* the exchange a lead sends as its n-th one
Exchange(n, t) == [user |-> n, bot |-> n, timestamp |-> t]

\* the log of a key follows the state object the key holds: it starts anew
\* whenever a new state is made for the key and ends when the key is deleted
LogAfterGet(lead_id) ==
    IF lead_id # None /\ lead_id \in DOMAIN conversation_states
    THEN appended[lead_id]
    ELSE <<>>

LogOfKept(states) ==
    [k \in ConvKeys |-> IF k \in DOMAIN states THEN appended[k] ELSE <<>>]

\* await _get_conversation_state_async(lead_id)
GetConversationState ==
    /\ Idle
    /\ \E lead_id \in ConvKeys :
       LET g == get_conversation_state(conversation_states, now, lead_id)
       IN  /\ conversation_states' = g.states
           /\ appended' = [appended EXCEPT ![lead_id] = LogAfterGet(lead_id)]
           /\ ret' = Call("get_conversation_state", lead_id, None, FALSE,
                          FALSE, TRUE, 0, RetValue("state", <<g.state>>))
    /\ UNCHANGED <<now, ticks, cacheVars, refresh, msgVars, enrichVars>>

\* await _update_conversation_and_memory(lead_id, user_message, bot_response):
\* the state is updated and stored under lead_id before _update_memory is
\* awaited; whatever that raises is logged by the except block
UpdateConversationAndMemory ==
    /\ Idle
    /\ \E lead_id \in ConvKeys :
       LET g     == get_conversation_state(conversation_states, now, lead_id)
           log   == LogAfterGet(lead_id)
           turn  == Exchange(Len(log) + 1, now)
           state == [g.state EXCEPT
                        !.history = Truncate(Append(@, turn)),
                        !.last_updated = now]
       IN  /\ Len(log) < KeyTurns(lead_id)
           /\ conversation_states' = Put(g.states, lead_id, state)
           /\ appended' = [appended EXCEPT ![lead_id] = Append(log, turn)]
           /\ ret' = Call("update_conversation_and_memory", lead_id, None,
                          FALSE, FALSE, TRUE, 0, RetNone)
    /\ UNCHANGED <<now, ticks, cacheVars, refresh, msgVars, enrichVars>>

IsExpiredInclusive(state, t) == t - state.last_updated >= IdleThreshold

\* current_time - state.get('last_updated', 0) > 3600
IsExpired(state, t) == t - state.last_updated > IdleThreshold

\* _cleanup_conversation_states: the keys deleted, in dict order
expired_states(states, t) ==
    SelectSeq(ConvKeyOrder,
              LAMBDA k : k \in DOMAIN states /\ IsExpired(states[k], t))

Without(states, keys) ==
    [k \in DOMAIN states \ {keys[i] : i \in 1..Len(keys)} |-> states[k]]

\* await perform_maintenance(): building the task list runs the sweep, which
\* is no coroutine; the TypeError gather raises on its None is logged
PerformMaintenance ==
    /\ Idle
    /\ LET expired == expired_states(conversation_states, now)
       IN  /\ conversation_states' = Without(conversation_states, expired)
           /\ ret' = Call("perform_maintenance", None, None, FALSE, FALSE,
                          TRUE, 0, RetValue("expired_states", expired))
    /\ appended' = LogOfKept(conversation_states')
    /\ UNCHANGED <<now, ticks, cacheVars, refresh, msgVars, enrichVars>>

\* await cleanup(): _conversation_states.clear()
Cleanup ==
    /\ Idle
    /\ conversation_states' = EmptyDict
    /\ appended' = LogOfKept(conversation_states')
    /\ ret' = Call("cleanup", None, None, FALSE, FALSE, TRUE, 0, RetNone)
    /\ UNCHANGED <<now, ticks, cacheVars, refresh, msgVars, enrichVars>>

NextConv ==
    \/ Tick
    \/ GetConversationState
    \/ UpdateConversationAndMemory
    \/ PerformMaintenance
    \/ Cleanup
    \/ Return

SpecConv == Init /\ [][NextConv]_vars

(***************************************************************************)
(* The chat orchestrators: process_message of ChatbotManager, of           *)
(* EnhancedChatbotManager and of EnhancedChatbotBase.  The Gateway client  *)
(* blocks, so a call is suspended only while it awaits the LLM.  The trace *)
(* of a call lists the stages of the pipeline in the order the code goes   *)
(* through them.                                                           *)
(***************************************************************************)
FallbackChatbot ==
    "Lo siento, hubo un error al procesar tu mensaje. ¿Podrías intentarlo de nuevo?"

FallbackEnhanced == "Lo siento, ha ocurrido un error al generar la respuesta."

FallbackBase ==
    "Lo siento, hubo un error procesando tu mensaje. Por favor, intenta de nuevo."

\* chatbot_data.get('quick_questions', [])
QuickQuestions == <<"q1">>

\* how the awaited LLM call ends
LLMOutcomes == {"ok", "failed", "cancelled"}

Response(kind, text, actions) ==
    [kind |-> kind, text |-> text, suggested_actions |-> actions]

Raise(e) == Response("raise", e, <<>>)

\* f"{self.chatbot_id}:{lead_id or 'default'}"
MemKey(lead_id) == IF lead_id = None THEN "default" ELSE lead_id

MemKeys == {MemKey(lead_id) : lead_id \in ConvKeys}

\* _get_memory(lead_id): the store after the call
get_memory(store, lead_id) ==
    IF MemKey(lead_id) \in DOMAIN store THEN store
    ELSE Put(store, MemKey(lead_id), <<>>)

HumanMessage(content) == [role |-> "human", content |-> content]
AIMessage(content) == [role |-> "ai", content |-> content]

MemoryAfterUserFirst(messages, message, llm) ==
    IF llm = "ok"
    THEN messages \o <<HumanMessage(message), AIMessage(message)>>
    ELSE messages \o <<HumanMessage(message)>>

\* memory.add_user_message(message); memory.add_ai_message(response): both
\* follow the awaited ainvoke, so neither runs unless it returned
MemoryAfter(messages, message, llm) ==
    IF llm = "ok"
    THEN messages \o <<HumanMessage(message), AIMessage(message)>>
    ELSE messages

\* how initialize() ends when process_message has to call it: the chatbot row
\* is found and chatbot_memories is empty or not, or something raises
InitializeOutcomes == {"ok", "ok_memories", "raise"}

\* EnhancedChatbotManager.process_message(message, lead_id) up to its await
\* of chain.ainvoke
EnhancedProcessMessage ==
    /\ msg.pc = "idle"
    /\ \E lead_id \in ConvKeys :
       \E init \in IF chain THEN {"skip"} ELSE InitializeOutcomes :
           /\ Len(Get(memory_store, MemKey(lead_id), <<>>)) < 2 * MaxExchanges
           /\ IF init = "raise"
              THEN /\ msg' = [NoMsg EXCEPT
                                 !.pc = "done",
                                 !.by = "EnhancedChatbotManager",
                                 !.lead_id = lead_id,
                                 !.pre = memory_store,
                                 !.stages = <<"LOAD_CONFIG", "RESPOND">>,
                                 !.out = Response("fallback", FallbackEnhanced,
                                                  <<>>)]
                   /\ UNCHANGED <<chain, memory_store>>
              ELSE LET loaded == IF init = "ok_memories"
                                 THEN get_memory(memory_store, None)
                                 ELSE memory_store
                       store  == get_memory(loaded, lead_id)
                       recent == store[MemKey(lead_id)]
                   IN  /\ chain' = TRUE
                       /\ memory_store' = store
                       /\ msg' = [NoMsg EXCEPT
                                     !.pc = "llm",
                                     !.by = "EnhancedChatbotManager",
                                     !.lead_id = lead_id,
                                     !.message = Len(recent) \div 2 + 1,
                                     !.chat_history = recent,
                                     !.pre = memory_store,
                                     !.stages =
                                         (IF init = "skip" THEN <<>>
                                          ELSE <<"LOAD_CONFIG">>)
                                         \o <<"LOAD_STATE", "BUILD_PROMPT",
                                              "STREAM_LLM">>]
    /\ UNCHANGED <<now, ticks, cacheVars, ret, convVars, refresh, enrichVars,
                   short_term_memory>>

\* the awaited chain.ainvoke ends and process_message runs to its end: an
\* Exception is answered with the fallback, a CancelledError is none
EnhancedLLMDone ==
    /\ msg.pc = "llm"
    /\ \E llm \in LLMOutcomes :
           /\ memory_store' =
                  [memory_store EXCEPT ![MemKey(msg.lead_id)] =
                       MemoryAfter(@, msg.message, llm)]
           /\ msg' = [msg EXCEPT
                         !.pc = "done",
                         !.llm = llm,
                         !.stages =
                             @ \o (IF llm = "ok"
                                   THEN <<"PERSIST_STATE", "RESPOND">>
                                   ELSE IF llm = "failed" THEN <<"RESPOND">>
                                   ELSE <<>>),
                         !.out =
                             IF llm = "ok"
                             THEN Response("answer", "completion",
                                           QuickQuestions)
                             ELSE IF llm = "failed"
                             THEN Response("fallback", FallbackEnhanced, <<>>)
                             ELSE Raise("CancelledError")]
    /\ UNCHANGED <<now, ticks, cacheVars, ret, convVars, refresh, enrichVars, chain,
                   short_term_memory>>

\* self._get_current_context(): ChatbotManager has no such method
get_current_context == Raise("AttributeError")

\* return {"response": ..., "suggested_actions": ..., "context":
\* self._get_current_context()}
ChatbotReturn(kind, text, actions) ==
    IF get_current_context.kind = "raise" THEN get_current_context
    ELSE Response(kind, text, actions)

\* the ways a message takes through ChatbotManager.process_message
MessagePaths == {"images", "quick", "availability", "llm"}

\* the try block of ChatbotManager.process_message: the three early answers,
\* and the LLM path, whose first statement evaluates _get_current_context()
ChatbotTry(path) ==
    IF path = "images"
    THEN ChatbotReturn("answer", "gallery", <<"Ver Habitaciones">>)
    ELSE IF path = "quick"
    THEN ChatbotReturn("answer", "quick_response", <<>>)
    ELSE IF path = "availability"
    THEN ChatbotReturn("answer", "availability", <<"Reservar ahora">>)
    ELSE get_current_context

\* ChatbotManager.process_message(message): what the try block raises goes
\* to the except block, whose return builds the same dict
ChatbotProcessMessage ==
    /\ msg.pc = "idle"
    /\ \E path \in MessagePaths :
           msg' = [NoMsg EXCEPT
                      !.pc = "done",
                      !.by = "ChatbotManager",
                      !.out = IF ChatbotTry(path).kind = "raise"
                              THEN ChatbotReturn("fallback", FallbackChatbot,
                                                 <<>>)
                              ELSE ChatbotTry(path)]
    /\ UNCHANGED <<now, ticks, cacheVars, ret, convVars, refresh, enrichVars, chain,
                   memory_store, short_term_memory>>

\* EnhancedChatbotBase.process_message(message): llm_chain.arun saves the
\* exchange into the memory of the chain when it returns
BaseProcessMessage ==
    /\ msg.pc = "idle"
    /\ Len(short_term_memory) < 2 * MaxExchanges
    /\ \E llm \in LLMOutcomes :
           /\ short_term_memory' =
                  MemoryAfter(short_term_memory,
                              Len(short_term_memory) \div 2 + 1, llm)
           /\ msg' = [NoMsg EXCEPT
                         !.pc = "done",
                         !.by = "EnhancedChatbotBase",
                         !.llm = llm,
                         !.out =
                             IF llm = "ok"
                             THEN Response("answer", "completion", <<>>)
                             ELSE IF llm = "failed"
                             THEN Response("fallback", FallbackBase, <<>>)
                             ELSE Raise("CancelledError")]
    /\ UNCHANGED <<now, ticks, cacheVars, ret, convVars, refresh, enrichVars, chain,
                   memory_store>>

\* the caller has taken the outcome of process_message
MsgReturn ==
    /\ msg.pc = "done"
    /\ msg' = NoMsg
    /\ UNCHANGED <<now, ticks, cacheVars, ret, convVars, refresh, enrichVars, chain,
                   memory_store, short_term_memory>>

NextMsg ==
    \/ EnhancedProcessMessage
    \/ EnhancedLLMDone
    \/ ChatbotProcessMessage
    \/ BaseProcessMessage
    \/ MsgReturn

SpecMsg == Init /\ [][NextMsg]_vars

(***************************************************************************)
(* ResponseEnricher (app/core/response_enricher.py) with its collaborators *)
(* TextFormatter (text_formatter.py), WeightSystem (weight_system.py) and  *)
(* GalleryManager (gallery_manager.py).                                    *)
(*                                                                         *)
(* A text is the sequence of its pieces: a word, one character of the      *)
(* range U+1F300..U+1F9FF, an image reference in brackets or parentheses,  *)
(* a blank, a price.  A value read from the chatbot's configuration is a   *)
(* record tagged with its python type; "missing" is a key that is absent.  *)
(* An exception raised by a stage is either forced by the arguments or     *)
(* by the environment (fault names the stage it strikes).                  *)
(***************************************************************************)
Word == "hola"
Emoji == "emoji"
BracketRef == "[Imagen de X]"
ParenRef == "(Imagen de X)"
Space == " "
Price == "$10"

\* the model's texts handed to enrich_response
LLMTexts ==
    { <<Word>>,
      <<Word, Emoji>>,
      <<BracketRef, Space, Word>>,
      <<Word, Space, ParenRef, Space, Word, Emoji>>,
      <<Word, Space, Price>>,
      <<Space, Emoji, Space>> }

\* search_terms: not a list, or a list of strings
SearchTerms ==
    { [is_list |-> FALSE, items |-> <<>>],
      [is_list |-> TRUE, items |-> <<>>],
      [is_list |-> TRUE, items |-> <<"">>],
      [is_list |-> TRUE, items |-> <<"piscina">>],
      [is_list |-> TRUE, items |-> <<"", "jardin">>],
      [is_list |-> TRUE, items |-> <<"zonas">>] }

Faults == {"none", "clean", "emoji", "format", "weight", "gallery"}

Personalities ==
    { [type |-> "missing", use_emojis |-> TRUE],
      [type |-> "dict", use_emojis |-> TRUE],
      [type |-> "dict", use_emojis |-> FALSE],
      [type |-> "str", use_emojis |-> TRUE],
      [type |-> "null", use_emojis |-> TRUE] }

\* only 'tone' has content (a dict), or occurs in the value (a string)
OnlyTone == [NoContext.facets EXCEPT !.tone = "set"]

ContextStructures ==
    { NoContext,
      [type |-> "dict", facets |-> OnlyTone],
      [type |-> "dict", facets |-> NoContext.facets],
      [type |-> "str", facets |-> NoContext.facets],
      [type |-> "str", facets |-> OnlyTone],
      [type |-> "null", facets |-> NoContext.facets] }

Configurations == {"missing", "dict", "str", "null"}

Notes == {"missing", "str", "null"}

EmptyConfig ==
    [type |-> "dict", personality |-> [type |-> "missing", use_emojis |-> TRUE],
     context_structure |-> NoContext,
     configuration |-> "missing", notes |-> "missing", empty |-> TRUE]

NullConfig == [EmptyConfig EXCEPT !.type = "null"]

ChatbotConfigs ==
    {NullConfig} \cup
    [type : {"dict"}, personality : Personalities,
     context_structure : ContextStructures, configuration : Configurations,
     notes : Notes, empty : {FALSE}]

\* a gallery row with its images; url "" is an image without url
Image(url, name) == [url |-> url, name |-> name, description |-> name]

\* a row of image_galleries with its images joined; "" is a field without
\* content
Gallery(id, name, description, keywords, gallery_images) ==
    [id |-> id, name |-> name, description |-> description,
     keywords |-> keywords, gallery_images |-> gallery_images]

\* the tables a loaded GalleryManager may hold
GalleryStores ==
    { <<>>,
      << Gallery("g2", "Piscina Caverna", "", <<>>,
                 <<Image("u1", "pool"), Image("", "zonas")>>) >>,
      << Gallery("g2", "Piscina Caverna", "", <<>>,
                 <<Image("", "pool")>>) >>,
      << Gallery("g1", "Jardin", "", <<>>, <<Image("u2", "piscina")>>),
         Gallery("g2", "Piscina Caverna", "", <<>>,
                 <<Image("u1", "pool"), Image("u3", "pool")>>) >> }

\* str.lower() on the names of the model
Lower(s) ==
    CASE s = "Piscina Caverna" -> "piscina caverna"
      [] s = "Jardin" -> "jardin"
      [] s = "Piscina" -> "piscina"
      [] s = "Fotos" -> "fotos"
      [] OTHER -> s

\* needle in hay, on the strings of the model
ProperSubstrings ==
    { <<"piscina", "piscina caverna">>, <<"zona", "zonas">>,
      <<"habitacion", "habitaciones">>, <<"instalacion", "instalaciones">> }

In(needle, hay) == needle = hay \/ <<needle, hay>> \in ProperSubstrings

RECURSIVE LStrip(_)
LStrip(text) ==
    IF text # <<>> /\ Head(text) = Space THEN LStrip(Tail(text)) ELSE text

RECURSIVE RStrip(_)
RStrip(text) ==
    IF text # <<>> /\ text[Len(text)] = Space
    THEN RStrip(SubSeq(text, 1, Len(text) - 1))
    ELSE text

\* str.strip()
Strip(text) == RStrip(LStrip(text))

\* the outcome of a stage
Ok(text) == [raised |-> FALSE, text |-> text]
Raised == [raised |-> TRUE, text |-> <<>>]

\* no text of the model holds a line break: the third substitution is idle
_clean_image_references(text) ==
    Strip(SelectSeq(text, LAMBDA p : p \notin {BracketRef, ParenRef}))

\* chatbot_config.get('personality', {}).get('use_emojis', True)
_process_emojis(text, chatbot_config) ==
    IF chatbot_config.personality.type \in {"str", "null"}
    THEN Raised
    ELSE IF ~chatbot_config.personality.use_emojis
         THEN Ok(SelectSeq(text, LAMBDA p : p # Emoji))
         ELSE Ok(text)

PriceCode == "<code>$10</code>"

_format_prices_and_times(text) ==
    [i \in 1..Len(text) |-> IF text[i] = Price THEN PriceCode ELSE text[i]]

\* runs of blanks become one blank, then strip()
RECURSIVE CollapseSpaces(_)
CollapseSpaces(text) ==
    IF Len(text) < 2 THEN text
    ELSE IF text[1] = Space /\ text[2] = Space
         THEN CollapseSpaces(Tail(text))
         ELSE <<text[1]>> \o CollapseSpaces(Tail(text))

_improve_punctuation(text) == Strip(CollapseSpaces(text))

NotePiece == "> note"

\* 'notes' of the context is appended: a str, or a TypeError
_apply_context_formatting(text, context) ==
    CASE context.notes = "missing" -> Ok(text)
      [] context.notes = "str" -> Ok(text \o <<NotePiece>>)
      [] OTHER -> Raised

\* a text of the model is one paragraph; an exception inside is caught and
\* the text handed in is returned
format_response(text, context, fault) ==
    LET formatted_text ==
            _improve_punctuation(_format_prices_and_times(Strip(text)))
        result ==
            IF context.type = "dict" /\ ~context.empty
            THEN _apply_context_formatting(formatted_text, context)
            ELSE Ok(formatted_text)
    IN  IF fault \/ result.raised THEN text ELSE Strip(result.text)

RECURSIVE SumOver(_, _)
SumOver(keys, f) ==
    IF keys = {} THEN 0
    ELSE LET k == CHOOSE x \in keys : TRUE
         IN  f[k] + SumOver(keys \ {k}, f)

\* the variant that counts every key that is there, with content or not
CalculateContextRelevanceOfKeys(context_structure) ==
    CASE context_structure.type = "missing" -> [raised |-> FALSE, val |-> 0]
      [] context_structure.type = "dict" ->
            [raised |-> FALSE,
             val |-> Min(SumOver({k \in ContextFacets :
                                     context_structure.facets[k] # "missing"},
                                 context_structure_weights), 100)]
      [] context_structure.type = "str" ->
            [raised |-> \E k \in ContextFacets :
                            context_structure.facets[k] = "set",
             val |-> 0]
      [] OTHER -> [raised |-> TRUE, val |-> 0]

\* 'key in context_structure and context_structure[key]': a TypeError on a
\* value that is no container, and on a string that holds the key
calculate_context_relevance(context_structure) ==
    CASE context_structure.type = "missing" -> [raised |-> FALSE, val |-> 0]
      [] context_structure.type = "dict" ->
            [raised |-> FALSE,
             val |-> Min(SumOver({k \in ContextFacets :
                                     context_structure.facets[k] = "set"},
                                 context_structure_weights), 100)]
      [] context_structure.type = "str" ->
            [raised |-> \E k \in ContextFacets :
                            context_structure.facets[k] = "set",
             val |-> 0]
      [] OTHER -> [raised |-> TRUE, val |-> 0]

\* the keys calculate_response_weights may give a weight
WeightedFacets ==
    {"quick_questions", "personality", "context", "configuration",
     "voice_enabled", "use_emojis"}

\* the weight a facet enters the sum with
RawWeight(config, k) == IF config[k] = "set" THEN chatbot_weights[k] ELSE 0

\* the keys of the result: voice_enabled and use_emojis are always there
WeightKeys(config) ==
    {k \in WeightedFacets :
        config[k] = "set" \/ k \in {"voice_enabled", "use_emojis"}}

\* the variant that leaves the weights as they are in the table
CalculateResponseWeightsRaw(config) ==
    [k \in WeightKeys(config) |-> <<RawWeight(config, k), 100>>]

\* a weight is the fraction <<numerator, denominator>>
calculate_response_weights(config) ==
    LET raw == [k \in WeightKeys(config) |-> RawWeight(config, k)]
        total_weight == SumOver(WeightKeys(config), raw)
    IN  [k \in WeightKeys(config) |->
            <<raw[k], IF total_weight > 0 THEN total_weight ELSE 100>>]

\* the facets of a configuration of the enricher
FacetsOf(chatbot_config) ==
    [NoFacets EXCEPT
        !.personality =
            CASE chatbot_config.personality.type \in {"dict", "str"} -> "set"
              [] chatbot_config.personality.type = "null" -> "empty"
              [] OTHER -> "missing",
        !.configuration =
            CASE chatbot_config.configuration \in {"dict", "str"} -> "set"
              [] chatbot_config.configuration = "null" -> "empty"
              [] OTHER -> "missing"]

apply_weights_to_response(response, chatbot_config) ==
    LET context_relevance ==
            calculate_context_relevance(chatbot_config.context_structure)
    IN  [raised |-> context_relevance.raised, text |-> response,
         weights_applied |->
             calculate_response_weights(FacetsOf(chatbot_config)),
         context_relevance |-> context_relevance.val]

AnyIn(terms, hay) == \E i \in 1..Len(terms) : In(terms[i], hay)

\* the number of terms found in a keyword of the gallery
KeywordMatches(search_terms, keywords) ==
    Cardinality({i \in 1..Len(search_terms) :
                    \E k \in 1..Len(keywords) :
                        In(search_terms[i], Lower(keywords[k]))})

\* the score as the fraction <<matches, total_checks>>, 0.0 as <<0, 1>>; the
\* images of the model carry no keywords
Score(search_terms, gallery) ==
    LET terms == [i \in 1..Len(search_terms) |-> Lower(search_terms[i])]
        name == Lower(gallery.name)
        description == Lower(gallery.description)
        images == gallery.gallery_images
        image_matches ==
            \E i \in 1..Len(images) :
                \/ AnyIn(terms, Lower(images[i].name))
                \/ AnyIn(terms, Lower(images[i].description))
        matches ==
            (IF gallery.keywords # <<>>
             THEN KeywordMatches(terms, gallery.keywords) ELSE 0)
            + (IF name # "" /\ AnyIn(terms, name) THEN 2 ELSE 0)
            + (IF description # "" /\ AnyIn(terms, description) THEN 1 ELSE 0)
            + (IF images # <<>> /\ image_matches THEN 1 ELSE 0)
        total_checks ==
            (IF gallery.keywords # <<>> THEN 1 ELSE 0)
            + (IF name # "" THEN 2 ELSE 0)
            + (IF description # "" THEN 1 ELSE 0)
            + (IF images # <<>> THEN 1 ELSE 0)
    IN  IF search_terms = <<>> \/ total_checks = 0
        THEN <<0, 1>>
        ELSE <<matches, total_checks>>

\* score >= min_score, min_score = 0.1
MinScoreTenths == 1

Relevant(score) == 10 * score[1] >= MinScoreTenths * score[2]

\* the variant that sorts by ascending score
HigherReversed(a, b) == a[1] * b[2] < b[1] * a[2]

\* a has a strictly higher score than b
Higher(a, b) == a[1] * b[2] > b[1] * a[2]

\* list.sort(key=score, reverse=True): stable insertion
RECURSIVE InsertByScore(_, _, _)
InsertByScore(sorted, gallery, search_terms) ==
    IF sorted = <<>> THEN <<gallery>>
    ELSE IF Higher(Score(search_terms, gallery),
                   Score(search_terms, Head(sorted)))
         THEN <<gallery>> \o sorted
         ELSE <<Head(sorted)>>
                  \o InsertByScore(Tail(sorted), gallery, search_terms)

RECURSIVE SortByScore(_, _)
SortByScore(galleries, search_terms) ==
    IF galleries = <<>> THEN <<>>
    ELSE InsertByScore(
             SortByScore(SubSeq(galleries, 1, Len(galleries) - 1),
                         search_terms),
             galleries[Len(galleries)], search_terms)

\* the terms that are strings with content
ValidTerms(search_terms) == SelectSeq(search_terms, LAMBDA t : t # "")

\* the variant that finds nothing without terms
FindRelevantGalleriesNoWildcard(store, search_terms) ==
    LET filtered_terms ==
            [i \in 1..Len(ValidTerms(search_terms)) |->
                Lower(ValidTerms(search_terms)[i])]
    IN  SortByScore(
            SelectSeq(store,
                      LAMBDA g : Relevant(Score(filtered_terms, g))),
            filtered_terms)

\* store is list(self._galleries.values()), the galleries in the order their
\* ids were first loaded
find_relevant_galleries(store, search_terms) ==
    LET filtered_terms ==
            [i \in 1..Len(ValidTerms(search_terms)) |->
                Lower(ValidTerms(search_terms)[i])]
    IN  IF filtered_terms = <<>> THEN store
        ELSE SortByScore(
                 SelectSeq(store,
                           LAMBDA g : Relevant(Score(filtered_terms, g))),
                 filtered_terms)

\* only the url of every image that has one
GalleryImages(gallery) ==
    LET with_url == SelectSeq(gallery.gallery_images, LAMBDA i : i.url # "")
    IN  [i \in 1..Len(with_url) |-> [url |-> with_url[i].url]]

\* a gallery as it is attached
Attached(gallery) ==
    [name |-> gallery.name, images |-> GalleryImages(gallery)]

\* the variant that attaches a gallery whatever images it has
EnrichedGalleriesKeepAll(galleries) ==
    [i \in 1..Len(galleries) |-> Attached(galleries[i])]

\* only the galleries that have images
EnrichedGalleries(galleries) ==
    SelectSeq([i \in 1..Len(galleries) |-> Attached(galleries[i])],
              LAMBDA g : g.images # <<>>)

CaptionHead == "Aqui tienes algunas fotos"

context_mapping ==
    << <<"piscina", "de nuestra piscina">>,
       <<"restaurante", "de nuestro restaurante">>,
       <<"habitacion", "de nuestras habitaciones">>,
       <<"habitaciones", "de nuestras habitaciones">>,
       <<"camping", "de nuestra zona de camping">>,
       <<"instalacion", "de nuestras instalaciones">>,
       <<"instalaciones", "de nuestras instalaciones">>,
       <<"parque", "del parque">>,
       <<"zonas", "de nuestras zonas">>,
       <<"zona", "de esta zona">> >>

\* the indices of the keys found in the term
KeysIn(term) ==
    {i \in 1..Len(context_mapping) : In(context_mapping[i][1], term)}

\* the first term that holds a key of the mapping, 0 if none does
FirstMapped(clean_terms) ==
    LET hits == {i \in 1..Len(clean_terms) : KeysIn(clean_terms[i]) # {}}
    IN  IF hits = {} THEN 0 ELSE CHOOSE i \in hits : \A j \in hits : i <= j

\* every caption ends with the camera character U+1F4F8
_generate_image_message(search_terms, gallery_name) ==
    LET clean_terms == [i \in 1..Len(search_terms) |-> Lower(search_terms[i])]
        t == FirstMapped(clean_terms)
    IN  IF search_terms = <<>> THEN <<CaptionHead, Emoji>>
        ELSE IF t # 0
        THEN LET k == CHOOSE i \in KeysIn(clean_terms[t]) :
                          \A j \in KeysIn(clean_terms[t]) : i <= j
             IN  <<CaptionHead, context_mapping[k][2], Emoji>>
        ELSE IF gallery_name # ""
        THEN <<CaptionHead, "relacionadas con", gallery_name, Emoji>>
        ELSE <<CaptionHead, "relacionadas con">> \o clean_terms \o <<Emoji>>

\* the variant that keeps every term
FilterTermsKeepAll(items) == items

\* [term for term in search_terms if term and isinstance(term, str)]
FilterTerms(items) == SelectSeq(items, LAMBDA t : t # "")

\* the stages of enrich_response, in their order
EnrichStages == <<"clean", "emoji", "format", "weight", "gallery">>

\* the dict returned: path names the return statement taken, stages lists
\* the stages that ran to their end; the dict of the except clause has no
\* weights and no context_relevance
EnrichOut(path, text, galleries, weighted, stages) ==
    [path |-> path, text |-> text, galleries |-> galleries,
     weights |-> weighted.weights_applied,
     context_relevance |-> weighted.context_relevance, stages |-> stages]

Unweighted == [weights_applied |-> EmptyDict, context_relevance |-> 0]

enrich_response(llm_response, search_terms, chatbot_config, store, fault) ==
    LET truthy == chatbot_config.type = "dict" /\ ~chatbot_config.empty
        fallback(stages) ==
            EnrichOut("fallback", llm_response, <<>>, Unweighted, stages)
        cleaned == _clean_image_references(llm_response)
        processed ==
            IF ~truthy THEN Ok(cleaned)
            ELSE IF fault = "emoji" THEN Raised
            ELSE _process_emojis(cleaned, chatbot_config)
        formatted_text ==
            format_response(processed.text, chatbot_config, fault = "format")
        format_ran ==
            ~(fault = "format"
              \/ (truthy /\ chatbot_config.notes = "null"))
        weighted_response ==
            apply_weights_to_response(
                formatted_text,
                IF truthy THEN chatbot_config ELSE EmptyConfig)
        upto_format ==
            <<"clean", "emoji">> \o (IF format_ran THEN <<"format">> ELSE <<>>)
        filtered_terms == FilterTerms(search_terms.items)
        enriched_galleries ==
            EnrichedGalleries(find_relevant_galleries(store, filtered_terms))
    IN  IF fault = "clean" THEN fallback(<<>>)
        ELSE IF processed.raised THEN fallback(<<"clean">>)
        ELSE IF fault = "weight" \/ weighted_response.raised
        THEN fallback(upto_format)
        ELSE IF ~search_terms.is_list \/ search_terms.items = <<>>
                \/ filtered_terms = <<>>
        THEN EnrichOut("plain", weighted_response.text, <<>>,
                       weighted_response, upto_format \o <<"weight">>)
        ELSE IF fault = "gallery" THEN fallback(upto_format \o <<"weight">>)
        ELSE IF enriched_galleries # <<>>
        THEN EnrichOut("caption",
                       _generate_image_message(filtered_terms,
                                               enriched_galleries[1].name),
                       enriched_galleries, weighted_response,
                       upto_format \o <<"weight", "gallery">>)
        ELSE EnrichOut("plain", weighted_response.text, <<>>,
                       weighted_response,
                       upto_format \o <<"weight", "gallery">>)

\* self._galleries[gallery_id] = gallery: a known id keeps its place
Upsert(table, gallery) ==
    IF \E i \in 1..Len(table) : table[i].id = gallery.id
    THEN [i \in 1..Len(table) |->
             IF table[i].id = gallery.id THEN gallery ELSE table[i]]
    ELSE Append(table, gallery)

RECURSIVE LoadTable(_, _)
LoadTable(table, rows) ==
    IF rows = <<>> THEN table
    ELSE LoadTable(Upsert(table, Head(rows)), Tail(rows))

\* all_keywords of a gallery
AllKeywords(gallery) ==
    {gallery.keywords[i] : i \in 1..Len(gallery.keywords)}
    \cup (IF gallery.name # "" THEN {Lower(gallery.name)} ELSE {})
    \cup (IF gallery.description # ""
          THEN {Lower(gallery.description)} ELSE {})
    \cup UNION {{Lower(gallery.gallery_images[i].name),
                 Lower(gallery.gallery_images[i].description)} \ {""} :
                   i \in 1..Len(gallery.gallery_images)}

\* self._gallery_keywords[keyword].append(gallery_id), for every keyword
IndexGallery(index, gallery) ==
    [k \in DOMAIN index \cup AllKeywords(gallery) |->
        IF k \in AllKeywords(gallery)
        THEN Append(Get(index, k, <<>>), gallery.id)
        ELSE index[k]]

\* neither dict is cleared before the rows are put in
LoadIndex(index, rows) ==
    LET RECURSIVE Build(_, _)
        Build(ix, rs) ==
            IF rs = <<>> THEN ix
            ELSE Build(IndexGallery(ix, Head(rs)), Tail(rs))
    IN  Build(index, rows)

\* the calls of enrich_response the model makes
EnrichCalls ==
    [pc : {"call"}, llm_response : LLMTexts, search_terms : SearchTerms,
     chatbot_config : ChatbotConfigs, fault : Faults, out : {NoEnrich.out}]

InitEnrich ==
    /\ InitCore
    /\ _galleries \in GalleryStores
    /\ enrich \in EnrichCalls
    /\ _gallery_keywords = LoadIndex(EmptyDict, _galleries)
    /\ gal = NoGal
    /\ weigh = NoWeigh

\* await response_enricher.enrich_response(llm_response, search_terms,
\* chatbot_config): chatbot_config is the configuration in force after the
\* lookup by chatbot_id
EnrichResponse ==
    /\ enrich.pc = "call"
    /\ enrich' = [enrich EXCEPT
                     !.pc = "done",
                     !.out = enrich_response(enrich.llm_response,
                                             enrich.search_terms,
                                             enrich.chatbot_config,
                                             _galleries, enrich.fault)]
    /\ UNCHANGED <<now, ticks, cacheVars, ret, convVars, refresh, msgVars, svcVars,
                   _galleries, _gallery_keywords, gal, weigh>>

NextEnrich == EnrichResponse

SpecEnrich == InitEnrich /\ [][NextEnrich]_vars

(***************************************************************************)
(* WeightSystem (app/core/weight_system.py): its two computations, each    *)
(* applied to a configuration drawn when the call is made.                 *)
(***************************************************************************)

\* context_structure as the Gateway may give it
WeighContexts ==
    [type : {"dict"}, facets : [ContextFacets -> FacetValues]]
    \cup {[type |-> "null", facets |-> NoContext.facets],
          [type |-> "str", facets |-> OnlyTone]}

WeighCalls ==
    [pc : {"call"}, op : {"calculate_response_weights"},
     config : [ChatbotFacets -> FacetValues], context_structure : {NoContext},
     weights : {EmptyDict}, relevance : {NoWeigh.relevance}]
    \cup
    [pc : {"call"}, op : {"calculate_context_relevance"},
     config : {NoFacets}, context_structure : WeighContexts,
     weights : {EmptyDict}, relevance : {NoWeigh.relevance}]

InitWeigh ==
    /\ InitCore
    /\ _galleries = <<>>
    /\ enrich = NoEnrich
    /\ _gallery_keywords = EmptyDict
    /\ gal = NoGal
    /\ weigh \in WeighCalls

CalculateResponseWeights ==
    /\ weigh.pc = "call"
    /\ weigh.op = "calculate_response_weights"
    /\ weigh' = [weigh EXCEPT
                    !.pc = "done",
                    !.weights = calculate_response_weights(weigh.config)]
    /\ UNCHANGED <<now, ticks, cacheVars, ret, convVars, refresh, msgVars, svcVars,
                   _galleries, enrich, _gallery_keywords, gal>>

CalculateContextRelevance ==
    /\ weigh.pc = "call"
    /\ weigh.op = "calculate_context_relevance"
    /\ weigh' = [weigh EXCEPT
                    !.pc = "done",
                    !.relevance =
                        calculate_context_relevance(weigh.context_structure)]
    /\ UNCHANGED <<now, ticks, cacheVars, ret, convVars, refresh, msgVars, svcVars,
                   _galleries, enrich, _gallery_keywords, gal>>

NextWeigh ==
    \/ CalculateResponseWeights
    \/ CalculateContextRelevance

SpecWeigh == InitWeigh /\ [][NextWeigh]_vars

(***************************************************************************)
(* GalleryManager (app/core/gallery_manager.py): the table of galleries,   *)
(* the inverted keyword index, and the calls made on them.  The rows of    *)
(* image_galleries come with their images joined; gallery g1 exists in the *)
(* even generations of the Gateway only.                                   *)
(***************************************************************************)
GardenRow == Gallery("g1", "Jardin", "", <<>>, <<Image("u2", "piscina")>>)

PoolRow ==
    Gallery("g2", "Piscina Caverna", "agua", <<"piscina", "agua">>,
            <<Image("u1", "piscina"), Image("", "zonas")>>)

\* a row without name, description, keywords and images
BareRow == Gallery("g3", "", "", <<>>, <<>>)

GatewayGalleryRows(g) ==
    IF g % 2 = 0 THEN <<GardenRow, PoolRow>> ELSE <<PoolRow>>

image_indicators ==
    {"foto", "fotos", "imagen", "imágenes", "imagenes", "muestra", "mostrar",
     "ver", "enseña", "enseñar"}

ignore_words ==
    {"el", "la", "los", "las", "un", "una", "unos", "unas",
     "de", "del", "en", "por", "para", "con", "sin",
     "y", "o", "pero", "mas", "más",
     "que", "quien", "quién", "cual", "cuál",
     "este", "esta", "estos", "estas",
     "ese", "esa", "esos", "esas",
     "aquel", "aquella", "aquellos", "aquellas"}

\* the variant that keeps the trigger words among the terms
ExtractSearchTermsWithTriggers(message) ==
    LET words == [i \in 1..Len(message.words) |-> Lower(message.words[i])]
    IN  IF ~message.is_str \/ message.words = <<>> THEN <<>>
        ELSE IF ~\E i \in 1..Len(words) : words[i] \in image_indicators
        THEN <<>>
        ELSE SelectSeq(words,
                       LAMBDA w : w \notin ignore_words /\ Len(w) > 2)

\* a message is the sequence of the words message.split() gives
extract_search_terms(message) ==
    LET words == [i \in 1..Len(message.words) |-> Lower(message.words[i])]
    IN  IF ~message.is_str \/ message.words = <<>> THEN <<>>
        ELSE IF ~\E i \in 1..Len(words) : words[i] \in image_indicators
        THEN <<>>
        ELSE SelectSeq(words,
                       LAMBDA w : /\ w \notin image_indicators
                                  /\ w \notin ignore_words
                                  /\ Len(w) > 2)

\* the words of the messages of the model
Vocabulary == {"Fotos", "ver", "la", "mas", "Piscina", "sol", "ir"}

Messages ==
    {[is_str |-> FALSE, words |-> <<>>]}
    \cup {[is_str |-> TRUE, words |-> w] :
             w \in UNION {[1..n -> Vocabulary] : n \in 0..MaxWords}}

\* the term lists handed to find_relevant_galleries; "" is a term that is
\* null, empty or not a string
FindTerms ==
    { <<>>, <<"">>, <<"wifi">>, <<"piscina">>, <<"Piscina", "agua">>,
      <<"", "jardin">>, <<"zonas">> }

\* the term lists and galleries handed to _calculate_keyword_match_score
ScoreTerms == {<<>>, <<"wifi">>, <<"piscina">>, <<"piscina", "agua">>}

ScoreGalleries == {GardenRow, PoolRow, BareRow}

GalUnchanged ==
    UNCHANGED <<now, ticks, cacheVars, ret, convVars, refresh, msgVars, svcVars,
                enrich, weigh>>

\* await gallery_manager.initialize(): the select raises, or its rows are
\* put into the table and the index
GalInitialize ==
    /\ gal.op = "none"
    /\ gal.loads < MaxLoads
    /\ \/ /\ gal' = [gal EXCEPT !.op = "initialize", !.status = "raise"]
          /\ UNCHANGED <<_galleries, _gallery_keywords>>
       \/ /\ _galleries' = LoadTable(_galleries, GatewayGalleryRows(ticks))
          /\ _gallery_keywords'
                 = LoadIndex(_gallery_keywords, GatewayGalleryRows(ticks))
          /\ gal' = [gal EXCEPT !.op = "initialize", !.status = "ok",
                                !.loads = @ + 1, !.loaded = ticks]
    /\ GalUnchanged

GalFindRelevantGalleries ==
    /\ gal.op = "none"
    /\ \E search_terms \in FindTerms :
           gal' = [gal EXCEPT
                      !.op = "find_relevant_galleries", !.status = "ok",
                      !.terms = search_terms,
                      !.galleries =
                          find_relevant_galleries(_galleries, search_terms)]
    /\ UNCHANGED <<_galleries, _gallery_keywords>>
    /\ GalUnchanged

GalCalculateScore ==
    /\ gal.op = "none"
    /\ \E search_terms \in ScoreTerms, gallery \in ScoreGalleries :
           gal' = [gal EXCEPT
                      !.op = "_calculate_keyword_match_score",
                      !.status = "ok", !.terms = search_terms,
                      !.gallery = gallery.id,
                      !.score = Score(search_terms, gallery)]
    /\ UNCHANGED <<_galleries, _gallery_keywords>>
    /\ GalUnchanged

GalExtractSearchTerms ==
    /\ gal.op = "none"
    /\ \E message \in Messages :
           gal' = [gal EXCEPT
                      !.op = "extract_search_terms", !.status = "ok",
                      !.message = message,
                      !.search_terms = extract_search_terms(message)]
    /\ UNCHANGED <<_galleries, _gallery_keywords>>
    /\ GalUnchanged

\* the caller has taken the outcome of its call
GalReturn ==
    /\ gal.op # "none"
    /\ gal' = [NoGal EXCEPT !.loads = gal.loads, !.loaded = gal.loaded]
    /\ UNCHANGED <<_galleries, _gallery_keywords>>
    /\ GalUnchanged

NextGal ==
    \/ Tick
    \/ GalInitialize
    \/ GalFindRelevantGalleries
    \/ GalCalculateScore
    \/ GalExtractSearchTerms
    \/ GalReturn

SpecGal == Init /\ [][NextGal]_vars

(***************************************************************************)
(* Claims about the TTL cache, checked under Spec.                         *)
(***************************************************************************)
ReadOps == {"get_chatbot_data", "get_entity_data", "get_images_for_entity"}

\* the types a read looks at
TypesRead(r) ==
    IF r.op = "get_images_for_entity"
    THEN {"image_galleries", "gallery_images"}
    ELSE {r.arg} \cap CacheTypes

\* C1: a read of a type that is unset or expired triggers a refresh from the
\* Gateway before it answers, and what it answers with is never older than
\* the expiration window of the type.
C1_StaleReadRefreshes ==
    (ret.op \in ReadOps /\ TypesRead(ret) # {} /\ ~ret.valid_before)
        => /\ ret.fetches >= 1
           /\ ret.ok => \A ty \in TypesRead(ret) : _is_cache_valid(ty)

\* C2: a get of a type inside its expiration window asks the Gateway nothing
\* and answers with the cached value; a get of an expired type, the Gateway
\* being reachable, refreshes the type exactly once and answers with the rows
\* just fetched.
C2_TtlWindow ==
    (ret.op \in {"get_chatbot_data", "get_entity_data"}
        /\ ret.arg \in PlainTypes /\ ret.ok)
        => /\ ret.valid_before => ret.fetches = 0
           /\ (~ret.valid_before /\ ~ret.cold_before)
                 => /\ ret.fetches = 1
                    /\ last_update[ret.arg] = now
                    /\ cache[ret.arg] = GatewayRows(ticks)

\* the collections refresh_cache(ty) assigns
RefreshedWith(ty) ==
    IF ty = "image_galleries" THEN {"image_galleries", "gallery_images"}
    ELSE {ty}

\* C4: a refresh_cache(T) during which a Gateway call fails, a previous value
\* of T existing, leaves cache[T], last_update[T] and every collection
\* refreshed together with T as they were, and raises nothing.
C4_FailedRefreshKeepsPrevious ==
    [][(ret'.op = "refresh_cache" /\ ret'.arg \in CacheTypes /\ ~ret'.ok
            /\ last_update[ret'.arg] # NoTime)
          => /\ \A ty \in RefreshedWith(ret'.arg) :
                    /\ cache'[ty] = cache[ty]
                    /\ last_update'[ty] = last_update[ty]
             /\ ret'.out.kind # "raise"]_vars

\* C5: when the very first load of a type fails, the caller of the read gets
\* an explicit failure, not an empty list or None.
C5_ColdLoadFailureIsExplicit ==
    (ret.op = "get_chatbot_data" /\ ret.cold_before /\ ~ret.ok)
        => ret.out.kind = "raise"

\* C6: after a successful refresh_cache(T) the type T is valid, for every
\* known type T; after a successful refresh_cache() every known type is valid.
C6_RefreshResetsLastUpdate ==
    (ret.op = "refresh_cache" /\ ret.ok)
        => /\ ret.arg \in CacheTypes => _is_cache_valid(ret.arg)
           /\ ret.arg = None => \A ty \in CacheTypes : _is_cache_valid(ty)

\* C7 as stated: refresh_cache(T) leaves the value and the timestamp of every
\* type other than T unchanged.
C7_RefreshTouchesOnlyT ==
    [][(ret'.op = "refresh_cache" /\ ret'.arg \in CacheTypes)
          => \A ty \in CacheTypes \ {ret'.arg} :
                 /\ cache'[ty] = cache[ty]
                 /\ last_update'[ty] = last_update[ty]]_vars

\* C7 amended: refresh_cache(T) leaves the value and the timestamp of every
\* type unchanged other than T and, when T is image_galleries, gallery_images,
\* which the same branch re-fetches.
C7_RefreshFrame ==
    [][(ret'.op = "refresh_cache" /\ ret'.arg \in CacheTypes)
          => \A ty \in CacheTypes \ RefreshedWith(ret'.arg) :
                 /\ cache'[ty] = cache[ty]
                 /\ last_update'[ty] = last_update[ty]]_vars

\* a refresh of one plain type has succeeded while other types, plain ones
\* and the galleries, still hold what an earlier refresh loaded
C7_Witness ==
    /\ ret.op = "refresh_cache" /\ ret.arg = "rooms" /\ ret.ok
    /\ last_update.rooms = now
    /\ last_update.chatbots # NoTime /\ last_update.chatbots < now
    /\ last_update.image_galleries # NoTime
    /\ last_update.image_galleries < now
    /\ cache.chatbots # cache.rooms

\* C8: _is_cache_valid(T) is true exactly when last_update[T] is set and
\* now - last_update[T] < expiration_times[T]; a type never refreshed is
\* invalid and so is an entry exactly as old as its expiration window.
C8_IsCacheValid ==
    \A ty \in CacheTypes :
        /\ _is_cache_valid(ty)
              <=> (/\ last_update[ty] # NoTime
                   /\ now - last_update[ty] < expiration_times[ty])
        /\ last_update[ty] = NoTime => ~_is_cache_valid(ty)
        /\ (last_update[ty] # NoTime
               /\ now - last_update[ty] = expiration_times[ty])
              => ~_is_cache_valid(ty)

\* get_chatbot_data met an entry exactly as old as its window and refreshed
\* it, while a younger entry of another type is still valid
C8_Witness ==
    /\ ret.op = "get_chatbot_data" /\ ~ret.valid_before /\ ~ret.cold_before
    /\ ret.fetches = 1 /\ ret.ok
    /\ \E ty \in CacheTypes :
           /\ last_update[ty] # NoTime
           /\ now - last_update[ty] = expiration_times["chatbots"]
           /\ _is_cache_valid(ty)

(***************************************************************************)
(* Claims about the conversation state tracker, checked under SpecConv.    *)
(***************************************************************************)
\* C9: the history stored for a lead is the last min(n, 10) of the n
\* exchanges appended to its state, in the order they were appended: it never
\* holds more than 10 and the ones dropped are the oldest.
C9_HistoryIsLastTen ==
    /\ \A k \in DOMAIN conversation_states :
           Len(conversation_states[k].history) <= 10
    /\ \A k \in Leads \cap DOMAIN conversation_states :
           LET history == conversation_states[k].history
               n       == Len(appended[k])
           IN  /\ Len(history) = Min(n, 10)
               /\ \A i \in 1..Len(history) :
                      history[i] = appended[k][n - Len(history) + i]

\* an eleventh exchange has been appended and the first one is gone
C9_Witness ==
    /\ ret.op = "update_conversation_and_memory" /\ ret.arg = "l1"
    /\ "l1" \in DOMAIN conversation_states
    /\ Len(appended["l1"]) = MaxHistory + 1
    /\ Len(conversation_states["l1"].history) = MaxHistory
    /\ conversation_states["l1"].history[1].user = 2
    /\ conversation_states["l1"].history[MaxHistory].user = MaxHistory + 1

\* C10: after the idle sweep has run at time now, no state with
\* now - last_updated > 3600 is left, and every state last updated within
\* 3600 s is still there with its history unchanged.
C10_IdleSweep ==
    [][ret'.op = "perform_maintenance"
          => /\ \A k \in DOMAIN conversation_states' :
                    now - conversation_states'[k].last_updated <= 3600
             /\ \A k \in DOMAIN conversation_states :
                    now - conversation_states[k].last_updated <= 3600
                       => /\ k \in DOMAIN conversation_states'
                          /\ conversation_states'[k].history
                                = conversation_states[k].history]_vars

\* the sweep has deleted a state idle for more than an hour and has kept one
\* idle for an hour at most, exchanges included
C10_Witness ==
    /\ ret.op = "perform_maintenance"
    /\ ret.out.val # <<>>
    /\ \E k \in DOMAIN conversation_states :
           /\ conversation_states[k].history # <<>>
           /\ now - conversation_states[k].last_updated = 0

\* C11: a conversation without a lead id is ephemeral: the tracker never
\* holds an entry for it, and every anonymous call is handed a state with an
\* empty history.
C11_AnonymousIsEphemeral ==
    /\ None \notin DOMAIN conversation_states
    /\ (ret.op = "get_conversation_state" /\ ret.arg = None)
           => ret.out.val[1].history = <<>>

\* C12: updates of one key take effect one after the other.  An exchange of
\* a lead processed while other exchanges of the same lead and the idle
\* sweep are under way is appended to what the key held (nothing is lost but
\* what the cap of 10 drops), no update changes the state of another key, and
\* a sweep leaves alone the state an exchange has just been appended to.
C12_UpdatesAreSerialized ==
    [][/\ (ret'.op = "update_conversation_and_memory" /\ ret'.arg \in Leads)
             => LET k      == ret'.arg
                    before == IF k \in DOMAIN conversation_states
                              THEN conversation_states[k].history ELSE <<>>
                    turn   == appended'[k][Len(appended'[k])]
                    after  == Append(before, turn)
                IN  /\ k \in DOMAIN conversation_states'
                    /\ turn.timestamp = now
                    /\ conversation_states'[k].history
                          = SubSeq(after, Len(after) - Min(Len(after), 10) + 1,
                                   Len(after))
                    /\ \A k2 \in ConvKeys \ {k} :
                           /\ k2 \in DOMAIN conversation_states'
                                 <=> k2 \in DOMAIN conversation_states
                           /\ k2 \in DOMAIN conversation_states
                                 => conversation_states'[k2]
                                       = conversation_states[k2]
       /\ ret'.op = "perform_maintenance"
             => \A k \in DOMAIN conversation_states :
                    conversation_states[k].last_updated = now
                       => /\ k \in DOMAIN conversation_states'
                          /\ conversation_states'[k] = conversation_states[k]
      ]_vars

\* two exchanges of one lead processed at the same clock value are both in
\* its history, in the order they were processed, next to the untouched state
\* of another lead
C12_Witness ==
    /\ ret.op = "update_conversation_and_memory" /\ ret.arg = "l1"
    /\ "l1" \in DOMAIN conversation_states
    /\ "l2" \in DOMAIN conversation_states
    /\ conversation_states["l2"].history # <<>>
    /\ conversation_states["l2"].last_updated < now
    /\ LET history == conversation_states["l1"].history
       IN  /\ Len(history) >= 2
           /\ history[Len(history)].timestamp = now
           /\ history[Len(history) - 1].timestamp = now
           /\ history[Len(history)].user = history[Len(history) - 1].user + 1

(***************************************************************************)
(* Claims about readers concurrent with a refresh, checked under SpecConc. *)
(***************************************************************************)
\* what the refresh in flight leaves in the cache when all its selects answer
PostRefresh ==
    (CHOOSE o \in refresh_cache(refresh.pre, last_update, now, ticks,
                                refresh.arg) : o.ok).cache

\* C3: a reader that runs while a refresh of the image galleries is in
\* flight gets the answer it would get from the cache as it was when the
\* refresh began, or the one it would get from the cache as the refresh
\* leaves it; the gallery list and the per-gallery images count as one
\* collection.
C3_ReaderSeesOldOrNew ==
    [][(/\ Idle
        /\ refresh.pc # "none"
        /\ refresh.arg = "image_galleries"
        /\ ret'.op = "get_images_for_entity")
          => ret'.out.val \in
                 { get_images_for_entity(refresh.pre, ret'.arg, ret'.id),
                   get_images_for_entity(PostRefresh, ret'.arg, ret'.id) }]_vars

(***************************************************************************)
(* Claims about the chat orchestrators, checked under SpecMsg.             *)
(***************************************************************************)
\* C13: when the LLM call of a message fails or is cancelled before it
\* completes, the memory of every key holds the messages it held when the
\* message arrived (no user turn, no partial answer), and the conversation
\* states are as they were.
C13_FailedCallCommitsNothing ==
    [][(msg'.pc = "done" /\ msg.pc # "done"
            /\ msg'.llm \in {"failed", "cancelled"})
          => /\ \A k \in MemKeys :
                    Get(memory_store', k, <<>>)
                       = Get(IF msg'.by = "EnhancedChatbotManager"
                             THEN msg'.pre ELSE memory_store, k, <<>>)
             /\ short_term_memory' = short_term_memory
             /\ conversation_states' = conversation_states]_vars

\* the LLM call of a message of a lead failed after an earlier exchange of
\* the lead had been stored: the earlier exchange is all the memory holds
C13_Witness ==
    /\ msg.pc = "done" /\ msg.by = "EnhancedChatbotManager"
    /\ msg.llm = "failed" /\ msg.lead_id = "l1"
    /\ msg.out.kind = "fallback"
    /\ msg.chat_history = <<HumanMessage(1), AIMessage(1)>>
    /\ memory_store["l1"] = msg.chat_history

\* C14: process_message of an orchestrator hands every outcome back as a
\* response and raises nothing to its caller, whatever collaborator fails;
\* when the LLM call fails the response is the fixed apology with no
\* suggested actions.
C14_NeverRaises ==
    (msg.pc = "done" /\ msg.llm # "cancelled")
        => /\ msg.out.kind # "raise"
           /\ msg.llm = "failed"
                 => /\ msg.out.text
                          \in {FallbackChatbot, FallbackEnhanced, FallbackBase}
                    /\ msg.out.suggested_actions = <<>>

\* C15: a message answered by the LLM went through STREAM_LLM, ENRICH,
\* PERSIST_STATE and RESPOND in this order: the completion was enriched
\* before the state was persisted, the state was persisted exactly once, and
\* RESPOND came last.
C15_StageOrder ==
    (msg.pc = "done" /\ msg.llm = "ok"
        /\ msg.by \in {"ChatbotManager", "EnhancedChatbotManager"})
        => LET s == msg.stages
           IN  /\ \E h, i, j \in 1..Len(s) :
                      /\ h < i /\ i < j /\ j < Len(s)
                      /\ s[h] = "STREAM_LLM"
                      /\ s[i] = "ENRICH"
                      /\ s[j] = "PERSIST_STATE"
               /\ Cardinality({j \in 1..Len(s) : s[j] = "PERSIST_STATE"}) = 1
               /\ s[Len(s)] = "RESPOND"

(***************************************************************************)
(* Claims about enrich_response (SpecEnrich).                              *)
(***************************************************************************)

Range(s) == {s[i] : i \in 1..Len(s)}

\* search_terms is a list that holds a term
TermsValid ==
    /\ enrich.search_terms.is_list
    /\ \E i \in 1..Len(enrich.search_terms.items) :
           enrich.search_terms.items[i] # ""

\* C16: enrich_response never raises, and whenever an exception strikes one
\* of its stages (image-markup cleaning, emoji policy, formatting,
\* weighting, gallery lookup) the result carries the original, unmodified
\* model text and no gallery.
C16_FaultFallsBack ==
    (enrich.pc = "done"
        /\ \/ enrich.out.path = "fallback"
           \/ "format" \notin Range(enrich.out.stages))
        => /\ enrich.out.text = enrich.llm_response
           /\ enrich.out.galleries = <<>>

\* C17: an exception in one stage of enrich_response stops that stage only:
\* every later stage of the pipeline still runs (the gallery stage whenever
\* there are search terms).
C17_StagesIsolated ==
    (enrich.pc = "done" /\ enrich.fault # "none")
        => \A i, j \in 1..Len(EnrichStages) :
               (/\ EnrichStages[i] = enrich.fault
                /\ i < j
                /\ EnrichStages[j] = "gallery" => TermsValid)
                   => EnrichStages[j] \in Range(enrich.out.stages)

\* the configuration is a dict whose personality switches emojis off
EmojisOff ==
    /\ enrich.chatbot_config.type = "dict"
    /\ enrich.chatbot_config.personality.type = "dict"
    /\ ~enrich.chatbot_config.personality.use_emojis

\* C18: with use_emojis = false in the personality, the text enrich_response
\* returns holds no character of the emoji range, on every path that ends
\* without an exception, the gallery-caption path included.
C18_NoEmojiWhenDisabled ==
    (enrich.pc = "done" /\ EmojisOff /\ enrich.out.path # "fallback")
        => Emoji \notin Range(enrich.out.text)

IsCaption(text) == text # <<>> /\ text[1] = CaptionHead

\* the model text after cleaning, emoji policy and formatting
ProcessedText ==
    LET c == enrich.chatbot_config
        cleaned == _clean_image_references(enrich.llm_response)
    IN  format_response(
            IF c.type = "dict" /\ ~c.empty
            THEN _process_emojis(cleaned, c).text ELSE cleaned,
            c, enrich.fault = "format")

\* C19: in the result of enrich_response galleries is non-empty exactly when
\* the text is a canned caption; every attached gallery has at least one
\* image and every attached image carries its url and nothing else; when no
\* gallery qualifies the text is the processed model text.
C19_CaptionIffGalleries ==
    enrich.pc = "done"
        => /\ (enrich.out.galleries # <<>>) <=> IsCaption(enrich.out.text)
           /\ \A g \in 1..Len(enrich.out.galleries) :
                  LET images == enrich.out.galleries[g].images
                  IN  /\ Len(images) >= 1
                      /\ \A i \in 1..Len(images) :
                             /\ DOMAIN images[i] = {"url"}
                             /\ images[i].url # ""
           /\ enrich.out.path = "plain" => enrich.out.text = ProcessedText

\* a caption replaced the text, and an image without url was left out of the
\* gallery attached
C19_Witness ==
    /\ enrich.pc = "done"
    /\ enrich.out.path = "caption"
    /\ IsCaption(enrich.out.text)
    /\ Len(enrich.out.galleries) = 1
    /\ Len(_galleries) = 1
    /\ Len(enrich.out.galleries[1].images) < Len(_galleries[1].gallery_images)

\* a field that is neither a dict nor absent
Malformed(type) == type \notin {"dict", "missing"}

\* the configuration with every malformed field replaced by its default
Defaulted(c) ==
    [c EXCEPT
        !.personality = IF Malformed(c.personality.type)
                        THEN EmptyConfig.personality ELSE @,
        !.context_structure = IF Malformed(c.context_structure.type)
                              THEN EmptyConfig.context_structure ELSE @,
        !.configuration = IF Malformed(c.configuration)
                          THEN EmptyConfig.configuration ELSE @]

\* C20: a personality, context_structure or configuration field that is not
\* a dict is never fatal: enrich_response answers what it answers with the
\* field replaced by its default, every remaining stage run.
C20_MalformedConfigDefaulted ==
    (enrich.pc = "done" /\ enrich.fault = "none"
        /\ enrich.chatbot_config.type = "dict")
        => LET d == enrich_response(enrich.llm_response, enrich.search_terms,
                                    Defaulted(enrich.chatbot_config),
                                    _galleries, "none")
           IN  /\ enrich.out.path = d.path
               /\ enrich.out.text = d.text
               /\ enrich.out.galleries = d.galleries

(***************************************************************************)
(* Claims about the WeightSystem (SpecWeigh).                              *)
(***************************************************************************)

\* calculate_response_weights has answered
WeightsDone ==
    weigh.pc = "done" /\ weigh.op = "calculate_response_weights"

\* calculate_context_relevance has answered
RelevanceDone ==
    weigh.pc = "done" /\ weigh.op = "calculate_context_relevance"

\* the numerators of the weights returned
Numerators == [k \in DOMAIN weigh.weights |-> weigh.weights[k][1]]

\* C28: for every chatbot configuration the values calculate_response_weights
\* returns sum to 0 (no applicable facet) or to 1, and each of them lies in
\* [0,1].
C28_WeightsSumToOne ==
    WeightsDone
        => /\ \A k \in DOMAIN weigh.weights :
                  /\ weigh.weights[k][2] = weigh.weights["voice_enabled"][2]
                  /\ weigh.weights[k][2] > 0
                  /\ 0 <= weigh.weights[k][1]
                  /\ weigh.weights[k][1] <= weigh.weights[k][2]
           /\ SumOver(DOMAIN weigh.weights, Numerators)
                  \in {0, weigh.weights["voice_enabled"][2]}

\* three facets with content, one of them empty-valued beside: the weights
\* 35, 15 and 5 hundredths came out as 35/55, 15/55 and 5/55
C28_Witness ==
    /\ WeightsDone
    /\ weigh.config.context = "empty"
    /\ DOMAIN weigh.weights
           = {"quick_questions", "personality", "voice_enabled", "use_emojis"}
    /\ weigh.weights["quick_questions"] = <<35, 55>>
    /\ weigh.weights["use_emojis"] = <<0, 55>>

\* the facets of the configuration that have content
PresentFacets == {k \in ChatbotFacets : weigh.config[k] = "set"}

\* C29: every facet of the table that is absent or empty in the
\* configuration has weight 0 or no weight, and every facet that is present
\* with content has its base weight divided by the sum of the base weights
\* of all the facets present with content.
C29_FacetWeights ==
    WeightsDone
        => \A k \in ChatbotFacets :
               IF k \in PresentFacets
               THEN /\ k \in DOMAIN weigh.weights
                    /\ weigh.weights[k][1]
                           * SumOver(PresentFacets, chatbot_weights)
                         = chatbot_weights[k] * weigh.weights[k][2]
               ELSE k \in DOMAIN weigh.weights => weigh.weights[k][1] = 0

\* the context facets that have content
PresentContext ==
    {k \in ContextFacets : weigh.context_structure.facets[k] = "set"}

\* C30: context_relevance is the sum of the base weights of exactly the
\* context facets present with content, capped at 1.0; it is 0 for an empty
\* context_structure and lies in [0,1].
C30_ContextRelevance ==
    (RelevanceDone /\ weigh.context_structure.type = "dict")
        => /\ ~weigh.relevance.raised
           /\ weigh.relevance.val
                  = Min(SumOver(PresentContext, context_structure_weights), 100)
           /\ 0 <= weigh.relevance.val
           /\ weigh.relevance.val <= 100
           /\ PresentContext = {} => weigh.relevance.val = 0

\* tone and special_instructions have content, purpose is there but empty:
\* the relevance is 0.10 + 0.30
C30_Witness ==
    /\ RelevanceDone
    /\ weigh.context_structure.type = "dict"
    /\ PresentContext = {"tone", "special_instructions"}
    /\ weigh.context_structure.facets["purpose"] = "empty"
    /\ weigh.relevance.val = 40

(***************************************************************************)
(* Claims about the GalleryManager (SpecGal).                              *)
(***************************************************************************)

ScoreDone == gal.op = "_calculate_keyword_match_score"

\* C21: for every list of search terms and every gallery the score of
\* _calculate_keyword_match_score lies in [0,1], and it is 0.0 when there
\* are no search terms or the gallery has nothing to check.
C21_ScoreInUnitInterval ==
    ScoreDone
        => /\ gal.score[2] > 0
           /\ 0 <= gal.score[1]
           /\ gal.score[1] <= gal.score[2]
           /\ (gal.terms = <<>> \/ gal.gallery = BareRow.id)
                  => gal.score[1] = 0

ExtractDone == gal.op = "extract_search_terms"

\* the words of the message, lowercased
MessageWords ==
    [i \in 1..Len(gal.message.words) |-> Lower(gal.message.words[i])]

\* a word of the message is a trigger word
HasTrigger == \E i \in 1..Len(MessageWords) : MessageWords[i] \in image_indicators

\* C22 as stated: without a trigger word the result is []; with one it is,
\* in message order, the lowercase tokens that are not stop words and have
\* at least 3 characters.
C22_TermsAreTokensButStopWords ==
    ExtractDone
        => IF ~HasTrigger THEN gal.search_terms = <<>>
           ELSE gal.search_terms
                    = SelectSeq(MessageWords,
                                LAMBDA w : w \notin ignore_words /\ Len(w) >= 3)

\* C22 amended: without a trigger word among its whitespace-separated,
\* lowercased tokens the result is []; with one it is, in message order, the
\* lowercase tokens that are neither trigger words nor stop words and have
\* at least 3 characters.
C22_TermsAreTokensButTriggersAndStopWords ==
    ExtractDone
        => IF ~HasTrigger THEN gal.search_terms = <<>>
           ELSE gal.search_terms
                    = SelectSeq(MessageWords,
                                LAMBDA w : /\ w \notin image_indicators
                                           /\ w \notin ignore_words
                                           /\ Len(w) >= 3)

\* 'Fotos la Piscina' gave ['piscina']
C22_Witness ==
    /\ ExtractDone
    /\ gal.message.words = <<"Fotos", "la", "Piscina">>
    /\ gal.search_terms = <<"piscina">>

FindDone == gal.op = "find_relevant_galleries"

\* the score of a gallery for the terms of the call
ScoreOf(gallery) == Score(ValidTerms(gal.terms), gallery)

\* C23: for search terms that hold a term, find_relevant_galleries returns
\* exactly the galleries of the table whose score is >= 0.1, each once, in
\* the order of non-increasing score.
C23_ExactlyTheRelevant ==
    (FindDone /\ ValidTerms(gal.terms) # <<>>)
        => /\ Range(gal.galleries)
                  = {g \in Range(_galleries) :
                        10 * ScoreOf(g)[1] >= ScoreOf(g)[2]}
           /\ Cardinality(Range(gal.galleries)) = Len(gal.galleries)
           /\ \A i, j \in 1..Len(gal.galleries) :
                  i < j => ScoreOf(gal.galleries[j])[1]
                               * ScoreOf(gal.galleries[i])[2]
                           <= ScoreOf(gal.galleries[i])[1]
                               * ScoreOf(gal.galleries[j])[2]

\* both galleries are relevant and the one loaded second, with the higher
\* score, is returned first
C23_Witness ==
    /\ FindDone
    /\ gal.terms = <<"piscina">>
    /\ Len(_galleries) = 2
    /\ Len(gal.galleries) = 2
    /\ gal.galleries[1] = _galleries[2]

\* C24: with no valid term (an empty list, or only null/empty/non-string
\* terms) find_relevant_galleries returns every gallery of the table; with
\* valid terms that match nothing it returns the empty list.
C24_WildcardOrNothing ==
    FindDone
        => /\ ValidTerms(gal.terms) = <<>> => gal.galleries = _galleries
           /\ (/\ ValidTerms(gal.terms) # <<>>
               /\ \A g \in Range(_galleries) : ScoreOf(g)[1] = 0)
                  => gal.galleries = <<>>

\* a list that holds only an empty term gave the whole table
C24_Witness ==
    /\ FindDone
    /\ gal.terms = <<"">>
    /\ Len(_galleries) = 2
    /\ gal.galleries = _galleries

\* C25 (SpecEnrich): when search_terms is empty, not a list, or holds only
\* null/empty/non-string entries, enrich_response does not look galleries
\* up: galleries is [] and the text is not a caption.
C25_LookupGatedOnTerms ==
    (enrich.pc = "done" /\ ~TermsValid)
        => /\ "gallery" \notin Range(enrich.out.stages)
           /\ enrich.out.galleries = <<>>
           /\ ~IsCaption(enrich.out.text)

\* a list with only an empty term, a table with a gallery that has images:
\* the text is the processed model text
C25_Witness ==
    /\ enrich.pc = "done"
    /\ enrich.search_terms = [is_list |-> TRUE, items |-> <<"">>]
    /\ \E i \in 1..Len(_galleries) : GalleryImages(_galleries[i]) # <<>>
    /\ enrich.out.path = "plain"
    /\ enrich.out.galleries = <<>>

\* initialize has ended without an exception
InitializeDone == gal.op = "initialize" /\ gal.status = "ok"

\* C26: a second initialize against the Gateway data of the load before it
\* leaves the gallery table and the keyword index as that load left them.
C26_InitializeIdempotent ==
    [][(gal.op = "none" /\ gal'.op = "initialize" /\ gal'.status = "ok"
           /\ gal.loaded = ticks)
          => /\ _galleries' = _galleries
             /\ _gallery_keywords' = _gallery_keywords]_vars

\* the ids a keyword of the rows stands for
IdsOf(rows, keyword) ==
    {rows[i].id : i \in {n \in 1..Len(rows) : keyword \in AllKeywords(rows[n])}}

\* C27: after every successful initialize the table holds exactly the
\* galleries, and the index exactly the keywords with their galleries, that
\* the Gateway returned in that call.
C27_IndexReflectsLastLoad ==
    InitializeDone
        => LET rows == GatewayGalleryRows(gal.loaded)
           IN  /\ Range(_galleries) = Range(rows)
               /\ DOMAIN _gallery_keywords
                      = UNION {AllKeywords(rows[i]) : i \in 1..Len(rows)}
               /\ \A k \in DOMAIN _gallery_keywords :
                      Range(_gallery_keywords[k]) = IdsOf(rows, k)

(***************************************************************************)
(* Claims about the gallery entries of the cache                           *)
(***************************************************************************)
\* C40: after every successful refresh of image_galleries (refresh_cache of
\* that type or of all types, or initialize_cache) the keys of
\* cache['gallery_images'] are exactly the ids of the galleries in
\* cache['image_galleries'].
C40_GalleryImagesKeysAreGalleryIds ==
    (/\ ret.ok
     /\ \/ ret.op = "initialize_cache"
        \/ ret.op = "refresh_cache" /\ ret.arg \in {"image_galleries", None})
        => DOMAIN cache.gallery_images = Range(cache.image_galleries)

(***************************************************************************)
(* OpenAIClient (app/core/openai_client.py): generate_response and         *)
(* stream_response, one step per await.  A completion is the sequence of   *)
(* its content chunks; generate_response hands it back whole.              *)
(***************************************************************************)
\* what the API may answer: an empty content, one chunk, two chunks
Completions == {<<>>, <<"Si">>, <<"Ho", "la">>}

\* the retry_count a caller passes; 2 is the default
RetryCounts == {0, 1, 2}

\* seconds a _response_cache entry stays valid
ResponseCacheSeconds == 300

\* await asyncio.sleep(1)
SleepSeconds == 1

\* _get_cached_response(cache_key): the cached response, or None (<<>>)
_get_cached_response(c, t) ==
    IF c.cached /\ t - c.timestamp < ResponseCacheSeconds
    THEN c.response
    ELSE <<>>

LastAttemptOffByOne(attempt, retry_count) == attempt = retry_count + 1

\* if attempt == retry_count
LastAttempt(attempt, retry_count) == attempt = retry_count

\* the except block of one attempt: raise on the last one, else sleep
AttemptFailed(c) ==
    LET c1 == [c EXCEPT !.failed = @ + 1, !.stream = <<>>]
    IN  IF LastAttempt(c.attempt, c.retry_count)
        THEN [c1 EXCEPT !.pc = "done", !.outcome = "raised"]
        ELSE [c1 EXCEPT !.pc = "sleep"]

\* a call starts: the fields of the previous call are cleared, the cache stays
NewCall(c, op, retry_count, use_cache) ==
    [NoLLM EXCEPT !.op = op, !.retry_count = retry_count,
                  !.use_cache = use_cache, !.cached = c.cached,
                  !.response = c.response, !.timestamp = c.timestamp]

\* the variables of the cache, the chatbots and the enricher
coreVars ==
    <<now, ticks, cacheVars, ret, convVars, refresh, msgVars, _galleries,
      enrich, _gallery_keywords, gal, weigh>>

ClientUnchanged == UNCHANGED <<coreVars, chat, intent, chat_memory, wizard, admin_chat>>

\* await openai_client.generate_response(messages, config, retry_count,
\* use_cache) up to its first await: a cached response that is not empty is
\* returned at once
GenerateResponse ==
    /\ openai_client.pc = "idle"
    /\ \E retry_count \in RetryCounts, use_cache \in BOOLEAN :
           LET c == NewCall(openai_client, "generate_response", retry_count,
                            use_cache)
               cached_response == _get_cached_response(openai_client, now)
           IN  openai_client' =
                   IF use_cache /\ cached_response # <<>>
                   THEN [c EXCEPT !.pc = "done", !.outcome = "returned",
                                  !.result = cached_response]
                   ELSE [c EXCEPT !.pc = "try"]
    /\ ClientUnchanged

\* async for chunk in openai_client.stream_response(messages, config,
\* retry_count), up to its first await
StreamResponse ==
    /\ openai_client.pc = "idle"
    /\ \E retry_count \in RetryCounts :
           openai_client' =
               [NewCall(openai_client, "stream_response", retry_count, FALSE)
                    EXCEPT !.pc = "try"]
    /\ ClientUnchanged

\* await self.client.chat.completions.create(...): it raises, or it answers
\* with a completion (generate_response) or opens its stream
ClientCreate ==
    /\ openai_client.pc = "try"
    /\ LET c == [openai_client EXCEPT !.attempts = @ + 1]
       IN  \/ openai_client' = AttemptFailed(c)
           \/ \E completion \in Completions :
                  openai_client' =
                      IF c.op = "generate_response"
                      THEN [c EXCEPT
                               !.pc = "done", !.outcome = "returned",
                               !.result = completion,
                               !.cached = IF c.use_cache THEN TRUE ELSE @,
                               !.response =
                                   IF c.use_cache THEN completion ELSE @,
                               !.timestamp = IF c.use_cache THEN now ELSE @]
                      ELSE [c EXCEPT !.pc = "stream", !.stream = completion,
                                     !.result = completion]
    /\ ClientUnchanged

\* one step of async for chunk in stream: a content chunk is yielded to the
\* consumer, the finish chunk ends the generator, or the stream raises
ClientChunk ==
    /\ openai_client.pc = "stream"
    /\ \/ /\ openai_client.stream # <<>>
          /\ openai_client' =
                 [openai_client EXCEPT
                     !.yielded = Append(@, Head(openai_client.stream)),
                     !.stream = Tail(@)]
       \/ /\ openai_client.stream = <<>>
          /\ openai_client' =
                 [openai_client EXCEPT !.pc = "done", !.outcome = "returned"]
       \/ openai_client' = AttemptFailed(openai_client)
    /\ ClientUnchanged

\* await asyncio.sleep(1), then the next round of the for loop; a loop that
\* has no round left ends the call without a value
ClientSleep ==
    /\ openai_client.pc = "sleep"
    /\ openai_client' =
           [openai_client EXCEPT
               !.slept = @ + SleepSeconds,
               !.attempt = @ + 1,
               !.pc = IF openai_client.attempt + 1 <= openai_client.retry_count
                      THEN "try" ELSE "done",
               !.outcome = IF openai_client.attempt + 1
                                 <= openai_client.retry_count
                           THEN @ ELSE "returned"]
    /\ ClientUnchanged

\* the caller has the value, or the exception, of the call
ClientReturn ==
    /\ openai_client.pc = "done"
    /\ openai_client' = NewCall(openai_client, "none", 0, FALSE)
    /\ ClientUnchanged

NextLLM ==
    \/ Tick
    \/ GenerateResponse
    \/ StreamResponse
    \/ ClientCreate
    \/ ClientChunk
    \/ ClientSleep
    \/ ClientReturn

SpecLLM == Init /\ [][NextLLM]_vars

(***************************************************************************)
(* Claims about OpenAIClient                                               *)
(***************************************************************************)
\* C31: a generation call is attempted at most retry_count + 1 times, with
\* one pause of fixed length between two attempts; it stops at the first
\* attempt that succeeds, and it raises only after retry_count + 1 attempts
\* have failed, and then it does raise.
C31_BoundedRetries ==
    LET c == openai_client
    IN  /\ c.attempts <= c.retry_count + 1
        /\ c.pc = "try" => /\ c.failed = c.attempts
                           /\ c.slept = SleepSeconds * c.attempts
        /\ (c.pc = "done" /\ c.attempts > 0)
               => c.slept = SleepSeconds * (c.attempts - 1)
        /\ (c.pc = "done" /\ c.outcome = "returned" /\ c.attempts > 0)
               => c.failed = c.attempts - 1
        /\ c.outcome = "raised"
               => c.failed = c.retry_count + 1 /\ c.attempts = c.failed
        /\ (c.pc = "done" /\ c.failed = c.retry_count + 1)
               => c.outcome = "raised"

\* generate_response with the default retry_count has failed twice and
\* returned the completion of its third attempt
C31_Witness ==
    /\ openai_client.op = "generate_response"
    /\ openai_client.pc = "done" /\ openai_client.outcome = "returned"
    /\ openai_client.retry_count = 2 /\ openai_client.attempts = 3
    /\ openai_client.slept = 2 * SleepSeconds
    /\ openai_client.result # <<>>

\* C34: the chunks one call of stream_response has yielded when it ends are
\* the content of exactly one completion, the one of its last attempt.
C34_YieldedIsOneCompletion ==
    (/\ openai_client.op = "stream_response"
     /\ openai_client.pc = "done"
     /\ openai_client.outcome = "returned")
        => openai_client.yielded = openai_client.result

(***************************************************************************)
(* The chat API (app/api/v1/chat.py): send_message, get_room_type_details  *)
(* and get_or_create_chatbot, one step per await, for requests that the    *)
(* event loop interleaves at their awaits.  The class the module imports   *)
(* as EnhancedChatbot is defined by no file; an instance is what the       *)
(* handlers use of it: a constructor, initialize(), process_message() and  *)
(* get_room_details(), each of which may raise.                            *)
(***************************************************************************)
AgencyIds == {"a1", "a2"}

ChatbotIds == {"c1", "c2"}

RoomTypeIds == {"rt1", "rt9"}

\* the rows of the Gateway: chatbot c1 of agency a1, room type rt1
GatewayChatbots == {<<"a1", "c1">>}

GatewayRoomTypes == {"rt1"}

\* chatbot_key = f"{agency_id}:{chatbot_id}"
ChatbotKey(agency_id, chatbot_id) == <<agency_id, chatbot_id>>

\* the requests taken so far
Requests == 1..Len(chat.requests)

\* the outcome of a handler: the HTTP status of its answer
Answered(r, status) == [r EXCEPT !.pc = "done", !.status = status]

HandlerRaisedNoPassThrough(r, e) == Answered(r, 500)

\* the except clauses of the handlers, for an exception raised in the try
\* block: send_message re-raises an HTTPException and turns every other one
\* into a 500, get_room_type_details turns a ValueError into a 404 and every
\* other one into a 500
HandlerRaised(r, e) ==
    IF r.op = "send_message"
    THEN IF e = "HTTPException404" THEN Answered(r, 404) ELSE Answered(r, 500)
    ELSE IF e = "ValueError" THEN Answered(r, 404) ELSE Answered(r, 500)

\* get_or_create_chatbot up to its await: an instance that is there is
\* returned, else a new one is constructed and its initialize() awaited
get_or_create_chatbot(c, r) ==
    IF r.key \in DOMAIN c.chatbot_instances
    THEN [chat |-> c,
          request |-> [r EXCEPT !.pc = "call",
                                !.got = c.chatbot_instances[r.key]]]
    ELSE [chat |-> [c EXCEPT !.created = @ + 1],
          request |-> [r EXCEPT !.pc = "initialize",
                                !.chatbot = c.created + 1]]

ChatUnchanged == UNCHANGED <<coreVars, openai_client, intent, chat_memory, wizard, admin_chat>>

\* send_message(agency_id, chatbot_id, message) up to its first await: the
\* lookup of the chatbot raises, finds nothing, or finds the row
SendMessage ==
    /\ Len(chat.requests) < MaxRequests
    /\ \E agency_id \in AgencyIds, chatbot_id \in ChatbotIds :
           LET r == [NoRequest EXCEPT
                        !.op = "send_message", !.agency_id = agency_id,
                        !.chatbot_id = chatbot_id,
                        !.key = ChatbotKey(agency_id, chatbot_id)]
               data == <<agency_id, chatbot_id>> \in GatewayChatbots
           IN  \/ chat' = [chat EXCEPT !.requests =
                      Append(@, HandlerRaised([r EXCEPT !.found = "raised"],
                                              "Exception"))]
               \/ /\ ~data
                  /\ chat' = [chat EXCEPT !.requests =
                         Append(@, HandlerRaised([r EXCEPT !.found = "empty"],
                                                 "HTTPException404"))]
               \/ /\ data
                  /\ LET o == get_or_create_chatbot(
                                  chat, [r EXCEPT !.found = "row"])
                     IN  chat' = [o.chat EXCEPT !.requests =
                                      Append(@, o.request)]
    /\ ChatUnchanged

\* get_room_type_details(hotel_id, room_type_id, chatbot_id) up to its first
\* await: the chatbot is looked up under the key chatbot_id:chatbot_id
GetRoomTypeDetails ==
    /\ Len(chat.requests) < MaxRequests
    /\ \E chatbot_id \in ChatbotIds, room_type_id \in RoomTypeIds :
           LET r == [NoRequest EXCEPT
                        !.op = "get_room_type_details",
                        !.agency_id = chatbot_id, !.chatbot_id = chatbot_id,
                        !.room_type_id = room_type_id,
                        !.key = ChatbotKey(chatbot_id, chatbot_id)]
               o == get_or_create_chatbot(chat, r)
           IN  chat' = [o.chat EXCEPT !.requests = Append(@, o.request)]
    /\ ChatUnchanged

\* await chatbot.initialize() is over: it has raised, or the instance is
\* stored under its key and chatbot_instances[chatbot_key] is returned
ChatbotInitialized ==
    /\ \E i \in Requests :
           LET r == chat.requests[i]
           IN  /\ r.pc = "initialize"
               /\ \/ \E e \in {"Exception", "ValueError"} :
                         chat' = [chat EXCEPT
                                     !.requests[i] = HandlerRaised(r, e)]
                  \/ chat' = [chat EXCEPT
                        !.chatbot_instances = Put(@, r.key, r.chatbot),
                        !.initialized = @ \cup {<<r.key, r.chatbot>>},
                        !.requests[i] =
                            [r EXCEPT !.pc = "call", !.got = r.chatbot]]
    /\ ChatUnchanged

\* await chatbot.process_message(...) or await chatbot.get_room_details(...)
\* is over, and the handler answers
ChatbotAnswered ==
    /\ \E i \in Requests :
           LET r == chat.requests[i]
           IN  /\ r.pc = "call"
               /\ \/ \E e \in {"Exception", "ValueError"} :
                         chat' = [chat EXCEPT !.requests[i] =
                             HandlerRaised([r EXCEPT !.found =
                                 IF r.op = "send_message" THEN @
                                 ELSE "raised"], e)]
                  \/ /\ r.op = "send_message"
                     /\ chat' = [chat EXCEPT
                                    !.requests[i] = Answered(r, 200)]
                  \/ /\ r.op = "get_room_type_details"
                     /\ chat' = [chat EXCEPT !.requests[i] =
                            IF r.room_type_id \in GatewayRoomTypes
                            THEN Answered([r EXCEPT !.found = "row"], 200)
                            ELSE HandlerRaised([r EXCEPT !.found = "empty"],
                                               "ValueError")]
    /\ ChatUnchanged

NextChat ==
    \/ SendMessage
    \/ GetRoomTypeDetails
    \/ ChatbotInitialized
    \/ ChatbotAnswered

SpecChat == Init /\ [][NextChat]_vars

C35_OneInstancePerKey ==
    /\ \A x, y \in chat.initialized : x[1] = y[1] => x = y
    /\ \A i, j \in Requests :
           (/\ chat.requests[i].key = chat.requests[j].key
            /\ chat.requests[i].got # 0
            /\ chat.requests[j].got # 0)
               => chat.requests[i].got = chat.requests[j].got

(***************************************************************************)
(* IntentDetector (app/core/admin/intent.py).  A message is its length,    *)
(* the parameters _extract_params finds in it, and the matches the         *)
(* compiled patterns find, in the order in which the patterns are tried;   *)
(* a confidence is the fraction <<numerator, denominator>>.                *)
(***************************************************************************)
\* the keys of self.patterns, in the order of the dict
PatternKeys ==
    <<[type |-> "HELP", entity |-> "UNKNOWN"],
      [type |-> "CREATE", entity |-> "CHATBOT"],
      [type |-> "LIST", entity |-> "CHATBOT"],
      [type |-> "VIEW", entity |-> "CHATBOT"]>>

MessageLens == {2, 5}

\* pattern.search(message) has matched message[start:stop] for a pattern of
\* the key; the matches taken are those at the start or at the end of the
\* message
PatternMatches(len) ==
    {m \in [key : 1..Len(PatternKeys), start : 0..(len - 1), stop : 1..len] :
         m.start < m.stop /\ (m.start = 0 \/ m.stop = len)}

\* the sequences of n matches whose keys come in the order of the dict, from
\* key k on
RECURSIVE MatchSeqs(_, _, _)
MatchSeqs(len, n, k) ==
    IF n = 0
    THEN {<<>>}
    ELSE UNION { {<<m>> \o q : q \in MatchSeqs(len, n - 1, m.key)}
                 : m \in {x \in PatternMatches(len) : x.key >= k} }

IntentMessages ==
    UNION { [len : {len}, params : {"none", "id"},
             matches : UNION {MatchSeqs(len, n, 1) : n \in 0..MaxMatches}]
            : len \in MessageLens }

\* confidence = (match_len / len(message) + position_score) / 2 with
\* position_score = 1 - match.start() / len(message)
Confidence(m, len) ==
    LET match_len == m.stop - m.start
    IN  <<match_len + (len - m.start), 2 * len>>

\* a > b on fractions
Greater(a, b) == a[1] * b[2] > b[1] * a[2]

\* the loop of _detect_pattern_intent over the matches, best_match so far
RECURSIVE BestMatch(_, _, _)
BestMatch(message, i, best_match) ==
    IF i > Len(message.matches)
    THEN best_match
    ELSE LET m == message.matches[i]
             confidence == Confidence(m, message.len)
         IN  BestMatch(message, i + 1,
                 IF Greater(confidence, best_match.confidence)
                 THEN [type |-> PatternKeys[m.key].type,
                       entity |-> PatternKeys[m.key].entity,
                       confidence |-> confidence,
                       params |-> message.params]
                 ELSE best_match)

_detect_pattern_intent(message) == BestMatch(message, 1, UnknownIntent)

ConfidentAtLeast(confidence) == ~Greater(<<8, 10>>, confidence)

\* pattern_intent.confidence > 0.8
Confident(confidence) == Greater(confidence, <<8, 10>>)

\* what self.llm.agenerate may do: raise, or answer with a text that is not
\* JSON, with JSON that names no member of IntentType, or with the JSON the
\* prompt asks for, whose confidence is whatever the model wrote
LLMAnswers ==
    {[kind |-> k, type |-> "UNKNOWN", entity |-> "UNKNOWN",
      confidence |-> <<0, 1>>] : k \in {"raise", "text", "bad_name"}}
    \cup [kind : {"json"}, type : {"CREATE", "HELP"}, entity : {"CHATBOT"},
          confidence : {<<1, 2>>, <<3, 2>>}]

\* the try block of _detect_llm_intent on the text of the answer
ParseIntent(a) ==
    IF a.kind = "json"
    THEN [type |-> a.type, entity |-> a.entity, confidence |-> a.confidence,
          params |-> "none"]
    ELSE UnknownIntent

IntentUnchanged == UNCHANGED <<coreVars, openai_client, chat, chat_memory, wizard, admin_chat>>

\* await intent_detector.detect_intent(message, conversation_history) up to
\* its await: the pattern stage, and its intent when it is confident
DetectIntent ==
    /\ intent.pc = "idle"
    /\ \E message \in IntentMessages :
           LET pattern_intent == _detect_pattern_intent(message)
               c == [NoIntent EXCEPT !.message = message,
                                     !.pattern_intent = pattern_intent]
           IN  intent' =
                   IF Confident(pattern_intent.confidence)
                   THEN [c EXCEPT !.pc = "done", !.outcome = "returned",
                                  !.out = pattern_intent]
                   ELSE [c EXCEPT !.pc = "llm"]
    /\ IntentUnchanged

\* await self.llm.agenerate([messages]) is over: its exception leaves
\* detect_intent, its text is parsed
IntentLLMAnswered ==
    /\ intent.pc = "llm"
    /\ \E a \in LLMAnswers :
           intent' =
               IF a.kind = "raise"
               THEN [intent EXCEPT !.pc = "done", !.llm_calls = @ + 1,
                                   !.outcome = "raised"]
               ELSE [intent EXCEPT !.pc = "done", !.llm_calls = @ + 1,
                                   !.outcome = IF a.kind = "json"
                                               THEN "returned"
                                               ELSE "unparsed",
                                   !.out = ParseIntent(a)]
    /\ IntentUnchanged

\* the caller has the intent
IntentReturn ==
    /\ intent.pc = "done"
    /\ intent' = NoIntent
    /\ IntentUnchanged

NextIntent ==
    \/ DetectIntent
    \/ IntentLLMAnswered
    \/ IntentReturn

SpecIntent == Init /\ [][NextIntent]_vars

(***************************************************************************)
(* Claims about IntentDetector                                             *)
(***************************************************************************)
\* C33: detect_intent returns the intent of the pattern stage, without a
\* call of the LLM, exactly when the confidence of that intent is above 0.8,
\* and calls the LLM once when it is not; an answer of the LLM that cannot
\* be parsed gives the UNKNOWN intent with confidence 0; the confidence of
\* the pattern stage is in [0,1].
C33_TwoStageIntent ==
    LET p == intent.pattern_intent
    IN  /\ p.confidence[1] >= 0 /\ p.confidence[1] <= p.confidence[2]
        /\ intent.pc = "llm" => 10 * p.confidence[1] <= 8 * p.confidence[2]
        /\ intent.pc = "done" =>
               IF 10 * p.confidence[1] > 8 * p.confidence[2]
               THEN intent.llm_calls = 0 /\ intent.out = p
               ELSE /\ intent.llm_calls = 1
                    /\ intent.outcome = "unparsed"
                           => intent.out = UnknownIntent

\* a match of CREATE chatbot at the start of the message has confidence
\* exactly 0.8, the LLM was asked, and its answer could not be parsed
C33_Witness ==
    /\ intent.pc = "done" /\ intent.outcome = "unparsed"
    /\ intent.pattern_intent.type = "CREATE"
    /\ 10 * intent.pattern_intent.confidence[1]
           = 8 * intent.pattern_intent.confidence[2]
    /\ intent.out.type = "UNKNOWN" /\ intent.out.confidence = <<0, 1>>

(***************************************************************************)
(* EnhancedChatMemory (app/core/chat_memory.py).  Its methods are          *)
(* synchronous; each call of an underlying store may raise, and the        *)
(* methods log and swallow what is raised.                                 *)
(***************************************************************************)
MemoryTexts == {"hola"}

\* where a call may raise: nowhere, in short_term_memory, in
\* long_term_memory, in the vector store
MemoryFaults == {"none", "short", "long", "vector"}

\* the try block of add_user_message / add_ai_message for one message
AddMessage(c, m, fault) ==
    IF fault = "short" THEN c
    ELSE LET c1 == [c EXCEPT !.short_term_memory = Append(@, m)]
         IN  IF fault = "long" THEN c1
             ELSE LET c2 == [c1 EXCEPT !.long_term_memory = Append(@, m)]
                  IN  IF c.vector_store.set /\ fault # "vector"
                      THEN [c2 EXCEPT !.vector_store.texts =
                                          Append(@, m.content)]
                      ELSE c2

\* the try block of clear
ClearMemory(c, fault) ==
    IF fault = "short" THEN c
    ELSE LET c1 == [c EXCEPT !.short_term_memory = <<>>]
         IN  IF fault = "long" THEN c1
             ELSE [c1 EXCEPT !.long_term_memory = <<>>,
                             !.vector_store = NoChatMemory.vector_store]

\* the faults a call can meet: the vector store is only used when it is set
FaultsOf(c) ==
    IF c.vector_store.set THEN MemoryFaults ELSE MemoryFaults \ {"vector"}

MemoryUnchanged == UNCHANGED <<coreVars, openai_client, chat, intent, wizard, admin_chat>>

\* memory.initialize_vector_store(texts, metadatas)
InitializeVectorStore ==
    /\ \E texts \in {<<>>, <<"memoria">>}, fault \in {"none", "vector"} :
           chat_memory' =
               [chat_memory EXCEPT
                   !.op = "initialize_vector_store", !.fault = fault,
                   !.vector_store =
                       IF texts = <<>> \/ fault = "vector" THEN @
                       ELSE [set |-> TRUE, texts |-> texts]]
    /\ MemoryUnchanged

\* memory.add_user_message(message)
AddUserMessage ==
    /\ Len(chat_memory.short_term_memory) < 2 * MaxExchanges
    /\ Len(chat_memory.long_term_memory) < 2 * MaxExchanges
    /\ \E message \in MemoryTexts, fault \in FaultsOf(chat_memory) :
           chat_memory' =
               [AddMessage(chat_memory, HumanMessage(message), fault)
                    EXCEPT !.op = "add_user_message", !.fault = fault]
    /\ MemoryUnchanged

\* memory.add_ai_message(message)
AddAIMessage ==
    /\ Len(chat_memory.short_term_memory) < 2 * MaxExchanges
    /\ Len(chat_memory.long_term_memory) < 2 * MaxExchanges
    /\ \E message \in MemoryTexts, fault \in FaultsOf(chat_memory) :
           chat_memory' =
               [AddMessage(chat_memory, AIMessage(message), fault)
                    EXCEPT !.op = "add_ai_message", !.fault = fault]
    /\ MemoryUnchanged

\* memory.clear()
ChatMemoryClear ==
    /\ \E fault \in {"none", "short", "long"} :
           chat_memory' =
               [ClearMemory(chat_memory, fault)
                    EXCEPT !.op = "clear", !.fault = fault]
    /\ MemoryUnchanged

NextMemory ==
    \/ InitializeVectorStore
    \/ AddUserMessage
    \/ AddAIMessage
    \/ ChatMemoryClear

SpecMemory == Init /\ [][NextMemory]_vars

(***************************************************************************)
(* Claims about EnhancedChatMemory                                         *)
(***************************************************************************)
\* C36: after every call of add_user_message, add_ai_message and clear, a
\* call in which a store raises included, the short-term and the long-term
\* memory hold the same sequence of messages.
C36_MemoriesAgree ==
    chat_memory.short_term_memory = chat_memory.long_term_memory

(***************************************************************************)
(* The admin asset wizard: IntentProcessor and MessageProcessor            *)
(* (app/core/admin/processors) and the asset managers                      *)
(* (app/core/admin/managers).                                              *)
(***************************************************************************)
\* int(value) raised ValueError
NotInt == -1

\* a message of the administrator: its text, text.lower(), len(text.strip()),
\* int(text), and the action and asset keywords _determine_operation finds
WizardInput(text, lower, len, number, action, asset) ==
    [text |-> text, lower |-> lower, len |-> len, number |-> number,
     action |-> action, asset |-> asset]

WizardInputs ==
    { WizardInput("crear hotel", "crear hotel", 11, NotInt, "CREATE", "hotel"),
      WizardInput("eliminar habitacion", "eliminar habitacion", 19, NotInt,
                  "DELETE", "room_type"),
      WizardInput("editar chatbot", "editar chatbot", 14, NotInt,
                  "EDIT", "chatbot"),
      WizardInput("ab", "ab", 2, NotInt, None, None),
      WizardInput("3_stars", "3_stars", 7, NotInt, None, None),
      WizardInput("1", "1", 1, 1, None, None),
      WizardInput("9", "9", 1, 9, None, None),
      WizardInput("SI", "si", 2, NotInt, None, None),
      WizardInput("no", "no", 2, NotInt, None, None),
      WizardInput("cancelar", "cancelar", 8, NotInt, None, None) }

\* the values a holder of a manager passes to process_step
StepInputs ==
    { m \in WizardInputs :
        m.text \in {"crear hotel", "3_stars", "1", "9", "SI", "no"} }

\* the ids the Gateway lists for the agency (hotels, chatbots, room types)
GatewayAssetIds == {1}

ChatbotFields ==
    <<"name", "description", "purpose", "welcome_message",
      "personality_tone", "personality_formality", "personality_emoji",
      "key_points", "special_instructions", "example_qa", "icon",
      "confirmation">>

\* STEPS of the manager class of an asset type
STEPS(asset) ==
    CASE asset = "chatbot" ->
           [CREATE |-> ChatbotFields,
            EDIT |-> <<"select">> \o ChatbotFields,
            DELETE |-> <<"select", "confirmation">>]
      [] asset = "hotel" ->
           [CREATE |-> <<"name", "description", "address", "category",
                         "amenities", "images", "confirmation">>,
            EDIT |-> <<"select", "name", "description", "address",
                       "category", "amenities", "images", "confirmation">>,
            DELETE |-> <<"select", "confirmation">>]
      [] asset = "room_type" ->
           [CREATE |-> <<"hotel", "name", "description", "capacity", "price",
                         "amenities", "images", "confirmation">>,
            EDIT |-> <<"select", "name", "description", "capacity", "price",
                       "amenities", "images", "confirmation">>,
            DELETE |-> <<"select", "confirmation">>]

\* the asset types ManagerFactory has a manager class for in this model
ManagedAssets == {"chatbot", "hotel", "room_type"}

\* current_steps.index(step)
StepIndex(steps, step) == CHOOSE i \in 1..Len(steps) : steps[i] = step

valid_categories == {"1_star", "2_stars", "3_stars", "4_stars", "5_stars"}

\* validate_input(field, value) of the manager of the asset type
validate_input(asset, field, value) ==
    CASE field = "name" -> value.len >= 3
      [] field = "description" -> value.len >= 10
      [] field = "address" /\ asset = "hotel" -> value.len >= 10
      [] field = "category" /\ asset = "hotel" ->
             value.text \in valid_categories
      [] field = "capacity" /\ asset = "room_type" ->
             value.number # NotInt /\ value.number >= 1 /\ value.number <= 10
      [] field = "price" /\ asset = "room_type" ->
             value.number # NotInt /\ value.number > 0
      [] field = "select" \/ (field = "hotel" /\ asset = "room_type") ->
             value.number # NotInt /\ value.number \in GatewayAssetIds
      [] OTHER -> TRUE

\* the replies that confirm the operation ('si' with an accent is "s'i")
AffirmativeWithNo == {"si", "s'i", "yes", "no"}
Affirmative == {"si", "s'i", "yes"}

\* BaseAssetManager.reset
ResetManager(m) == [m EXCEPT !.current_step = None, !.form_data = EmptyDict]

\* the Gateway writes of save_data: ChatbotManager reads self.db, which no
\* class defines, and the except clause answers for it; deleting a hotel
\* deletes its room types first
save_data(m) ==
    CASE m.asset = "chatbot" -> 0
      [] m.asset = "hotel" /\ m.operation = "DELETE" -> 2
      [] OTHER -> 1

\* step is in STEPS[operation]; steps.index(step) raises ValueError when it
\* is not, after form_data[step] was written
InSteps(m, step) ==
    \E i \in 1..Len(STEPS(m.asset)[m.operation]) :
        STEPS(m.asset)[m.operation][i] = step

\* what one call of a manager method did
StepResult(m, valid, wrote, raised) ==
    [manager |-> m, valid |-> valid, wrote |-> wrote, raised |-> raised,
     action_required |-> FALSE]

\* ChatbotManager.process_step(step, message)
ChatbotProcessStep(m, step, message) ==
    IF ~validate_input(m.asset, step, message)
    THEN StepResult(m, FALSE, 0, FALSE)
    ELSE LET m1 == [m EXCEPT !.form_data = Put(@, step, message.text)]
         IN  IF ~InSteps(m, step)
             THEN StepResult(m1, TRUE, 0, TRUE)
             ELSE IF step = "confirmation"
             THEN IF message.lower \in Affirmative
                  THEN StepResult(ResetManager(m1), TRUE, save_data(m1), FALSE)
                  ELSE StepResult(ResetManager(m1), TRUE, 0, FALSE)
             ELSE StepResult(m1, TRUE, 0, FALSE)

\* HotelManager.process_step and RoomTypeManager.process_step; the prompt of
\* the images step names UIComponentType.FILE_INPUT, which the UIComponent
\* of AdminChatResponse does not know, so building the response raises
HotelProcessStep(m, step, message) ==
    IF ~validate_input(m.asset, step, message)
    THEN StepResult(m, FALSE, 0, FALSE)
    ELSE LET m1 == [m EXCEPT !.form_data = Put(@, step, message.text)]
             current_steps == STEPS(m.asset)[m.operation]
             current_index == StepIndex(current_steps, step)
         IN  IF ~InSteps(m, step)
             THEN StepResult(m1, TRUE, 0, TRUE)
             ELSE IF step = "confirmation"
             THEN IF message.lower \in Affirmative
                  THEN StepResult(ResetManager(m1), TRUE, save_data(m1), FALSE)
                  ELSE IF message.lower = "no"
                       THEN StepResult(ResetManager(m1), TRUE, 0, FALSE)
                       ELSE StepResult(m1, TRUE, 0, FALSE)
             ELSE IF current_index < Len(current_steps)
                  THEN LET next_step == current_steps[current_index + 1]
                       IN  StepResult([m1 EXCEPT !.current_step = next_step],
                                      TRUE, 0, next_step = "images")
                  ELSE StepResult(m1, TRUE, 0, FALSE)

process_step(m, step, message) ==
    IF m.asset = "chatbot" THEN ChatbotProcessStep(m, step, message)
    ELSE HotelProcessStep(m, step, message)

\* manager_factory.create_manager(asset_type, agency_id), then
\* start_operation(operation)
start_operation(asset, operation) ==
    [asset |-> asset, operation |-> operation,
     current_step |-> STEPS(asset)[operation][1], form_data |-> EmptyDict]

CancelWords == {"cancelar", "cancel", "salir", "exit"}

\* the record of one call
WizardCall(op, step, message, r) ==
    [op |-> op, step |-> step, message |-> message.text,
     lower |-> message.lower, valid |-> r.valid, wrote |-> r.wrote,
     raised |-> r.raised]

\* IntentProcessor.process up to its call of the next processor
IntentContext(context, message) ==
    IF ~context.current_manager /\ message.action # None
       /\ message.asset # None
    THEN [context EXCEPT !.current_operation = message.action,
                         !.asset_type = message.asset]
    ELSE context

NoManagerContext(context) ==
    [context EXCEPT !.current_manager = FALSE, !.current_operation = None]

\* MessageProcessor.process(message, context)
MessageProcessorProcess(w, context, message) ==
    IF context.current_manager
    THEN IF message.lower \in CancelWords
         THEN [context |-> NoManagerContext(context),
               manager |-> ResetManager(w.manager),
               last |-> WizardCall("cancel", w.manager.current_step, message,
                                   StepResult(w.manager, TRUE, 0, FALSE))]
         ELSE LET response == process_step(w.manager, w.manager.current_step,
                                           message)
              IN  [context |-> IF response.raised \/ response.action_required
                               THEN context
                               ELSE NoManagerContext(context),
                   manager |-> response.manager,
                   last |-> WizardCall("process_step", w.manager.current_step,
                                       message, response)]
    ELSE IF context.current_operation # None /\ context.asset_type # None
         THEN IF context.asset_type \in ManagedAssets
              THEN [context |-> [context EXCEPT !.current_manager = TRUE],
                    manager |-> start_operation(context.asset_type,
                                                context.current_operation),
                    last |-> WizardCall("start_operation", None, message,
                                        StepResult(w.manager, TRUE, 0, FALSE))]
              ELSE [w EXCEPT !.context = context,
                             !.last = WizardCall("no_manager", None, message,
                                        StepResult(w.manager, TRUE, 0, FALSE))]
         ELSE [w EXCEPT !.context = context,
                        !.last = WizardCall("help", None, message,
                                        StepResult(w.manager, TRUE, 0, FALSE))]

WizardUnchanged ==
    UNCHANGED <<coreVars, openai_client, chat, intent, chat_memory, admin_chat>>

\* one message of the administrator through the chain of processors
ProcessAdminMessage ==
    /\ \E message \in WizardInputs :
           wizard' = MessageProcessorProcess(
                         wizard, IntentContext(wizard.context, message),
                         message)
    /\ WizardUnchanged

\* manager.process_step(manager.current_step, message), called by a holder
\* of the manager that does not go through MessageProcessor
ManagerProcessStep ==
    /\ wizard.manager.current_step # None
    /\ \E message \in StepInputs :
           LET response == process_step(wizard.manager,
                                        wizard.manager.current_step, message)
           IN  wizard' =
                   [wizard EXCEPT
                       !.manager = response.manager,
                       !.last = WizardCall("process_step",
                                           wizard.manager.current_step,
                                           message, response)]
    /\ WizardUnchanged

NextWizard ==
    \/ ProcessAdminMessage
    \/ ManagerProcessStep

SpecWizard == Init /\ [][NextWizard]_vars

(***************************************************************************)
(* Claims about the admin asset wizard                                     *)
(***************************************************************************)
\* the step after a step in STEPS[operation] of the manager
StepAfter(m, step) ==
    LET steps == STEPS(m.asset)[m.operation]
    IN  steps[StepIndex(steps, step) + 1]

\* the manager of a wizard that was started and has not ended is still
\* context['current_manager']
C37_ManagerStays ==
    wizard.manager.current_step # None => wizard.context.current_manager

\* a valid input at a step before the confirmation moved the manager to the
\* next step of STEPS[operation]
C37_ValidInputAdvances ==
    (/\ wizard.last.op = "process_step"
     /\ wizard.last.valid
     /\ InSteps(wizard.manager, wizard.last.step)
     /\ wizard.last.step # "confirmation")
        => wizard.manager.current_step
               = StepAfter(wizard.manager, wizard.last.step)

\* C37: the wizard advances one step of STEPS[operation], in order, for each
\* valid input, and its manager stays context['current_manager'] from
\* start_operation until the confirmation is answered or cancel is sent.
C37_WizardAdvancesInOrder ==
    C37_ManagerStays /\ C37_ValidInputAdvances

\* C38: a call of the wizard writes to the Gateway only when it is
\* process_step at the confirmation step with an affirmative reply; the
\* reply 'no' and a cancel write nothing; after the confirmation was
\* answered with yes or no, and after a cancel, current_step is None and
\* form_data is empty.
C38_WritesOnlyOnConfirmedYes ==
    LET l == wizard.last
        answered == /\ l.op = "process_step"
                    /\ l.step = "confirmation"
                    /\ l.valid
    IN  /\ l.wrote > 0 =>
               answered /\ l.lower \in {"si", "s'i", "yes"}
        /\ (l.op = "cancel" \/ (answered /\ l.lower = "no")) => l.wrote = 0
        /\ (l.op = "cancel"
            \/ (answered /\ l.lower \in {"si", "s'i", "yes", "no"}))
               => /\ wizard.manager.current_step = None
                  /\ wizard.manager.form_data = EmptyDict

\* a confirmation answered 'SI' has written a hotel or a room type
C38_Witness ==
    /\ wizard.last.wrote > 0
    /\ wizard.last.step = "confirmation"
    /\ wizard.manager.current_step = None

(***************************************************************************)
(* POST /admin/chat (app/api/v1/admin_chat.py) and AdminChatbotManager     *)
(* (app/core/admin_chatbot.py) with its ConversationState                  *)
(* (app/core/admin/intent.py).                                             *)
(***************************************************************************)
AdminUserIds == {"u1", "u2"}

\* a message, and whether it holds one of the keys 'nombre:', ...
AdminMessages ==
    { [text |-> "crear chatbot", has_data |-> FALSE],
      [text |-> "nombre: Bot", has_data |-> TRUE],
      [text |-> "cancelar", has_data |-> FALSE],
      [text |-> "hola", has_data |-> FALSE] }

\* what detect_intent answers for a message: an intent, or an exception of
\* the LLM call
DetectedIntents(message) ==
    IF message.text = "crear chatbot"
    THEN {"CREATE_CHATBOT", "UNKNOWN", "raise"}
    ELSE {"UNKNOWN", "raise"}

\* ConversationState() followed by _initialize_conversation
NewConversationState ==
    [active_process |-> None, process_step |-> None,
     conversation_history |-> <<"system">>]

\* ConversationState.start_process
start_process(state, process) ==
    [state EXCEPT !.active_process = process,
                  !.process_step = "collecting_data"]

\* ConversationState.clear_state
clear_state(state) ==
    [state EXCEPT !.active_process = None, !.process_step = None]

\* AdminChatbotManager.process_message on the conversation state of the
\* manager: the state it leaves, the active process and the history it
\* found, and the branch it took
process_message(state, message, detected) ==
    LET state1 == [state EXCEPT
                      !.conversation_history = Append(@, "user")]
        Answer(s, path) ==
            [conversation_state |-> s,
             active_process |-> state1.active_process,
             history |-> Len(state1.conversation_history),
             path |-> path]
    IN  IF detected = "raise" THEN Answer(state1, "error")
        ELSE IF message.has_data
             THEN Answer(clear_state(state1), "_handle_chatbot_creation")
        ELSE IF state1.active_process # None
             THEN IF message.text = "cancelar"
                  THEN Answer(clear_state(state1), "_handle_active_process")
                  ELSE Answer(state1, "_handle_active_process")
        ELSE IF detected = "CREATE_CHATBOT"
             THEN Answer(start_process(state1, "create_chatbot"),
                         "start_process")
        ELSE Answer(state1, "help")

\* the conversation state of the AdminChatbotManager the handler constructs
\* for the request
ManagerOfRequest(requests, user_id) == NewConversationState

AdminUnchanged ==
    UNCHANGED <<coreVars, openai_client, chat, intent, chat_memory, wizard>>

\* process_admin_message(request)
process_admin_message ==
    /\ Len(admin_chat.requests) < MaxRequests
    /\ \E user_id \in AdminUserIds, message \in AdminMessages :
         \E detected \in DetectedIntents(message) :
           LET chatbot == ManagerOfRequest(admin_chat.requests, user_id)
               response == process_message(chatbot, message, detected)
           IN  admin_chat' =
                   [admin_chat EXCEPT
                       !.requests =
                           Append(@, [user_id |-> user_id,
                                      message |-> message.text,
                                      detected |-> detected,
                                      conversation_state |->
                                          response.conversation_state,
                                      active_process |->
                                          response.active_process,
                                      history |-> response.history,
                                      path |-> response.path])]
    /\ AdminUnchanged

NextAdmin == process_admin_message

SpecAdmin == Init /\ [][NextAdmin]_vars

(***************************************************************************)
(* Claims about POST /admin/chat                                           *)
(***************************************************************************)
\* C39: when a request of an administrator has started create_chatbot, the
\* next request of the same administrator finds that process active and
\* finds the earlier messages in the conversation history.
C39_ProcessSurvivesBetweenRequests ==
    \A i \in 1..Len(admin_chat.requests), j \in 1..Len(admin_chat.requests) :
        LET a == admin_chat.requests[i]
            b == admin_chat.requests[j]
        IN  (/\ i < j
             /\ a.user_id = b.user_id
             /\ a.path = "start_process"
             /\ \A k \in (i + 1)..(j - 1) :
                    admin_chat.requests[k].user_id # a.user_id)
                => /\ b.active_process = "create_chatbot"
                   /\ b.history > a.history

====
